---- MODULE Spec2Model ----
(***************************************************************************)
(* A model of the reb-gb Game Boy core: the CPU step loop (src/src/cpu.rs), *)
(* the interrupt controller (src/src/interrupts.rs), the divider/timer      *)
(* (src/src/mmu/timer.rs), the bus (src/src/mmu/memory.rs) and the          *)
(* register file (src/src/cpu/registers.rs).                                *)
(*                                                                          *)
(* The cartridge image is arbitrary: every byte the bus reads from the      *)
(* cartridge during a step is drawn from a finite set of bytes.  RAM is     *)
(* kept as the map of its non-zero bytes (it is created zeroed).            *)
(***************************************************************************)
EXTENDS Integers, Sequences, FiniteSets, TLC

VARIABLES
    registers,        \* CPU.registers : Registers
    mmu,              \* CPU.mmu : ienable, iflag, timer, serial, ram, debug
    halted,           \* CPU.halted
    interrupts,       \* CPU.interrupts : Interrupts {ime, ei, di}
    cartridge,        \* the bytes of the cartridge image read so far, by address
    fault,            \* what the last step() ended with: Ok, an Error, or a panic
    overflow_checks,  \* build profile: integer overflow panics (debug) or wraps (release)
    image,            \* the family of cartridge images explored
    history           \* one observation per completed step() call, oldest first

vars == <<registers, mmu, halted, interrupts, cartridge, fault, overflow_checks,
          image, history>>

-----------------------------------------------------------------------------
(* Bounds of the model                                                      *)

\* step() calls explored from power-on, for images over the core opcodes
MaxSteps == 5

\* step() calls explored from power-on, for images over every opcode
MaxDecodeSteps == 1

\* calls of a run of the timer on its own
MaxTimerOps == 4

\* calls of a run of the bus on its own
MaxBusOps == 2

\* iterations of the boot loop explored for the serial port
MaxBootSteps == 4

\* step() calls explored from a CPU one or two machine cycles before a TIMA overflow
MaxPendingSteps == 3

-----------------------------------------------------------------------------
(* Machine integers                                                         *)

Byte == 0..255

u8(x) == x % 256

u16(x) == x % 65536

RECURSIVE BitAnd(_, _)
BitAnd(x, y) ==
    IF x = 0 \/ y = 0 THEN 0
    ELSE (x % 2) * (y % 2) + 2 * BitAnd(x \div 2, y \div 2)

RECURSIVE BitOr(_, _)
BitOr(x, y) ==
    IF x = 0 THEN y
    ELSE IF y = 0 THEN x
    ELSE (IF x % 2 = 1 \/ y % 2 = 1 THEN 1 ELSE 0) + 2 * BitOr(x \div 2, y \div 2)

RECURSIVE BitXor(_, _)
BitXor(x, y) ==
    IF x = 0 THEN y
    ELSE IF y = 0 THEN x
    ELSE ((x + y) % 2) + 2 * BitXor(x \div 2, y \div 2)

\* !x on a u8
BitNot(x) == 255 - x

\* `x as i8 as i16 as u16`: sign extension of a byte to 16 bits
SignExtend(x) == IF x >= 128 THEN x + 65280 ELSE x

-----------------------------------------------------------------------------
(* Interrupt controller: src/src/interrupts.rs                              *)

VBLANK == 1
LCD_STAT == 2
TIMER == 4
SERIAL == 8
JOYPAD == 16

\* HANDLERS scanned from the highest bit down
HANDLERS_Reversed == <<JOYPAD, SERIAL, TIMER, LCD_STAT, VBLANK>>

HANDLERS == <<VBLANK, LCD_STAT, TIMER, SERIAL, JOYPAD>>

\* Option<T>
None == <<>>
Some(x) == <<x>>

InterruptsDefault == [ime |-> FALSE, ei |-> "None", di |-> "None"]

enable(i, immediate) ==
    [i EXCEPT !.ei = IF immediate THEN "Setting" ELSE "Delayed"]

\* disable() turning IME off at once
disable_Immediate(i) == [i EXCEPT !.ime = FALSE, !.di = "Delayed"]

disable(i) == [i EXCEPT !.di = "Delayed"]

\* update() committing the pending disable before the pending enable
update_EnableLast(i) ==
    LET i1 == CASE i.di = "Delayed" -> [i EXCEPT !.di = "Setting"]
                [] i.di = "Setting" -> [i EXCEPT !.ime = FALSE, !.di = "None"]
                [] OTHER -> [i EXCEPT !.di = "None"]
    IN  CASE i1.ei = "Delayed" -> [i1 EXCEPT !.ei = "Setting"]
          [] i1.ei = "Setting" -> [i1 EXCEPT !.ime = TRUE, !.ei = "None"]
          [] OTHER -> [i1 EXCEPT !.ei = "None"]

update(i) ==
    LET i1 == CASE i.ei = "Delayed" -> [i EXCEPT !.ei = "Setting"]
                [] i.ei = "Setting" -> [i EXCEPT !.ime = TRUE, !.ei = "None"]
                [] OTHER -> [i EXCEPT !.ei = "None"]
    IN  CASE i1.di = "Delayed" -> [i1 EXCEPT !.di = "Setting"]
          [] i1.di = "Setting" -> [i1 EXCEPT !.ime = FALSE, !.di = "None"]
          [] OTHER -> [i1 EXCEPT !.di = "None"]

\* the loop returning all of IE & IF when no handler bit is set in both
RECURSIVE ScanHandlers_AnyBit(_, _, _)
ScanHandlers_AnyBit(k, ienable, iflag) ==
    IF k > Len(HANDLERS)
    THEN IF BitAnd(ienable, iflag) = 0 THEN None ELSE Some(BitAnd(ienable, iflag))
    ELSE IF BitAnd(ienable, HANDLERS[k]) = 0 THEN ScanHandlers_AnyBit(k + 1, ienable, iflag)
    ELSE IF BitAnd(iflag, HANDLERS[k]) = 0 THEN ScanHandlers_AnyBit(k + 1, ienable, iflag)
    ELSE Some(HANDLERS[k])

\* the `for handler in HANDLERS` loop, from index k on
RECURSIVE ScanHandlers(_, _, _)
ScanHandlers(k, ienable, iflag) ==
    IF k > Len(HANDLERS) THEN None
    ELSE IF BitAnd(ienable, HANDLERS[k]) = 0 THEN ScanHandlers(k + 1, ienable, iflag)
    ELSE IF BitAnd(iflag, HANDLERS[k]) = 0 THEN ScanHandlers(k + 1, ienable, iflag)
    ELSE Some(HANDLERS[k])

\* requested() without its `!self.ime && !halted` guard
requested_Unguarded(i, is_halted, ienable, iflag) == ScanHandlers(1, ienable, iflag)

requested(i, is_halted, ienable, iflag) ==
    IF ~i.ime /\ ~is_halted THEN None
    ELSE ScanHandlers(1, ienable, iflag)

\* Result<u16, Error>: <<"Ok", address>> or <<"Err", mask>>
handler_address(interrupt) ==
    CASE interrupt = VBLANK -> <<"Ok", \h0040>>
      [] interrupt = LCD_STAT -> <<"Ok", \h0048>>
      [] interrupt = TIMER -> <<"Ok", \h0050>>
      [] interrupt = SERIAL -> <<"Ok", \h0058>>
      [] interrupt = JOYPAD -> <<"Ok", \h0060>>
      [] OTHER -> <<"Err", interrupt>>

-----------------------------------------------------------------------------
(* Timer and divider: src/src/mmu/timer.rs                                  *)

CounterNew(every, enabled) ==
    [count |-> 0, value |-> 0, every |-> every, enabled |-> enabled]

TimerNew ==
    [interrupt |-> FALSE,
     div |-> CounterNew(256, TRUE),
     tima |-> CounterNew(1024, FALSE),
     tma |-> 0]

\* Counter::tick counting whether or not the counter is enabled
CounterTick_AlwaysOn(c) ==
    LET n == c.count + 1 IN
    IF n >= c.every
    THEN [c |-> [c EXCEPT !.count = 0, !.value = u8(c.value + 1)],
          overflow |-> u8(c.value + 1) = 0]
    ELSE [c |-> [c EXCEPT !.count = n], overflow |-> FALSE]

\* Counter::tick: the counter after the tick, and whether it overflowed
CounterTick(c) ==
    IF ~c.enabled THEN [c |-> c, overflow |-> FALSE]
    ELSE LET n == c.count + 1 IN
         IF n >= c.every
         THEN [c |-> [c EXCEPT !.count = 0, !.value = u8(c.value + 1)],
               overflow |-> u8(c.value + 1) = 0]
         ELSE [c |-> [c EXCEPT !.count = n], overflow |-> FALSE]

\* Timer::tick without the reload of TIMA from TMA
TimerTick_NoReload(t) ==
    LET d == CounterTick(t.div)
        m == CounterTick(t.tima)
    IN  IF m.overflow
        THEN [t EXCEPT !.div = d.c, !.tima = m.c, !.interrupt = TRUE]
        ELSE [t EXCEPT !.div = d.c, !.tima = m.c]

TimerTick(t) ==
    LET d == CounterTick(t.div)
        m == CounterTick(t.tima)
    IN  IF m.overflow
        THEN [t EXCEPT !.div = d.c,
                       !.tima = [m.c EXCEPT !.value = t.tma],
                       !.interrupt = TRUE]
        ELSE [t EXCEPT !.div = d.c, !.tima = m.c]

\* Timer::ticks: the loop `for _ in 0..ticks { self.tick() }`, taken sixty-four
\* or four iterations at a time while that many remain; the test on t.interrupt has
\* the timer computed round by round
RECURSIVE TimerTicks(_, _)
TimerTicks(t, n) ==
    IF n = 0 \/ t.interrupt \notin BOOLEAN THEN t
    ELSE IF n >= 64
    THEN TimerTicks(TimerTicks(TimerTicks(TimerTicks(TimerTicks(t, 16), 16), 16), 16), n - 64)
    ELSE IF n >= 4 THEN TimerTicks(TimerTick(TimerTick(TimerTick(TimerTick(t)))), n - 4)
    ELSE TimerTicks(TimerTick(t), n - 1)

\* write_tac with the periods of clock selects 01 and 10 exchanged
write_tac_Exchanged(t, value) ==
    [t EXCEPT !.tima.enabled = BitAnd(value, 4) # 0,
              !.tima.every = CASE value % 4 = 0 -> 1024
                               [] value % 4 = 1 -> 64
                               [] value % 4 = 2 -> 16
                               [] value % 4 = 3 -> 256]

write_tac(t, value) ==
    [t EXCEPT !.tima.enabled = BitAnd(value, 4) # 0,
              !.tima.every = CASE value % 4 = 0 -> 1024
                               [] value % 4 = 1 -> 16
                               [] value % 4 = 2 -> 64
                               [] value % 4 = 3 -> 256]

read_tac(t) ==
    BitOr(BitOr(\hF0, IF t.tima.enabled THEN 4 ELSE 0),
          CASE t.tima.every = 1024 -> 0
            [] t.tima.every = 16 -> 1
            [] t.tima.every = 64 -> 2
            [] t.tima.every = 256 -> 3)

TimerRead(t, address) ==
    CASE address = \hFF04 -> t.div.value
      [] address = \hFF05 -> t.tima.value
      [] address = \hFF06 -> t.tma
      [] address = \hFF07 -> read_tac(t)

\* Timer::write storing the written byte in DIV
TimerWrite_StoresDiv(t, address, value) ==
    CASE address = \hFF04 -> [t EXCEPT !.div.value = value]
      [] address = \hFF05 -> [t EXCEPT !.tima.value = value]
      [] address = \hFF06 -> [t EXCEPT !.tma = value]
      [] address = \hFF07 -> write_tac(t, value)

TimerWrite(t, address, value) ==
    CASE address = \hFF04 -> [t EXCEPT !.div.value = 0]
      [] address = \hFF05 -> [t EXCEPT !.tima.value = value]
      [] address = \hFF06 -> [t EXCEPT !.tma = value]
      [] address = \hFF07 -> write_tac(t, value)

-----------------------------------------------------------------------------
(* Register file: src/src/cpu/registers.rs                                  *)

FlagZ == 128
FlagN == 64
FlagH == 32
FlagC == 16

flag(r, fl) == BitAnd(r.f, fl) # 0

set_flag(r, fl, value) ==
    IF value THEN [r EXCEPT !.f = BitOr(r.f, fl)]
    ELSE [r EXCEPT !.f = BitAnd(r.f, BitNot(fl))]

af(r) == r.a * 256 + r.f
bc(r) == r.b * 256 + r.c
de(r) == r.d * 256 + r.e
hl(r) == r.h * 256 + r.l

set_af_Unmasked(r, value) == [r EXCEPT !.a = u8(value \div 256), !.f = u8(value)]

set_af(r, value) == [r EXCEPT !.a = u8(value \div 256), !.f = BitAnd(u8(value), \hF0)]
set_bc(r, value) == [r EXCEPT !.b = u8(value \div 256), !.c = u8(value)]
set_de(r, value) == [r EXCEPT !.d = u8(value \div 256), !.e = u8(value)]
set_hl_LowOnly(r, value) == [r EXCEPT !.l = u8(value)]

set_hl(r, value) == [r EXCEPT !.h = u8(value \div 256), !.l = u8(value)]

\* Registers::new; H and C are set iff the cartridge's header checksum byte is not 0
RegistersNew(checksum) ==
    LET r0 == [a |-> \h01, f |-> \h00, b |-> \h00, c |-> \h13, d |-> \h00,
               e |-> \hD8, h |-> \h01, l |-> \h4D, pc |-> \h0100, sp |-> \hFFFE]
        r1 == set_flag(r0, FlagZ, TRUE)
    IN  IF checksum # 0 THEN set_flag(set_flag(r1, FlagH, TRUE), FlagC, TRUE)
        ELSE r1

-----------------------------------------------------------------------------
(* Bus: src/src/mmu/memory.rs                                               *)
(* A machine value M carries the CPU's fields through one step():           *)
(*   registers, mmu, halted, interrupts, fault as the variables,            *)
(*   rom  : the bytes the cartridge holds at the addresses this step reads, *)
(*          by role (op, n1, n2 : opcode and operands; d1, d2 : data),      *)
(*   used : the roles the step really read from the cartridge,              *)
(*   t    : the T-cycles next() returned (16 for an interrupt dispatch),    *)
(*   fetched : the opcodes next() fetched,                                  *)
(*   ticked  : the T-cycles passed to ticks(),                              *)
(*   latched : whether ticks() latched the timer interrupt into IF.         *)

\* length of the cartridge image (the cpu_instrs fixture)
RomLen == 65536

Ok == [kind |-> "Ok", code |-> 0]
PanicFault == [kind |-> "Panic", code |-> 0]
\* every illegal opcode reporting the byte 0xD3
IllegalInstruction_D3(op) == [kind |-> "IllegalInstruction", code |-> \hD3]

IllegalInstruction(op) == [kind |-> "IllegalInstruction", code |-> op]
InvalidInterrupt(mask) == [kind |-> "InvalidInterrupt", code |-> mask]

\* a reserved access that is let through
Panic_Ignored(M) == M

Panic(M) == IF M.fault.kind = "Ok" THEN [M EXCEPT !.fault = PanicFault] ELSE M

\* Ram: vec![0; size], kept as the map of its non-zero bytes
RamNew == [a \in {} |-> 0]

RamRead(ram, address) == IF address \in DOMAIN ram THEN ram[address] ELSE 0

RamWrite(ram, address, value) ==
    IF value = 0 THEN [a \in DOMAIN ram \ {address} |-> ram[a]]
    ELSE [a \in DOMAIN ram \cup {address} |-> IF a = address THEN value ELSE ram[a]]

MemoryNew ==
    [ienable |-> 0, iflag |-> 0, timer |-> TimerNew,
     serial |-> [transfer |-> 0, control |-> 0],
     wram |-> RamNew, hram |-> RamNew, debug |-> FALSE]

\* 0xFF04 - 0xFF07 decode to the timer
TimerRegion(address) == address >= \hFF04 /\ address <= \hFF07

\* Memory::map: the device an address decodes to
map(debug, address) ==
    IF debug /\ address = \hFF44 THEN "tmp_dummy_lcd"
    ELSE CASE address <= \h7FFF -> "cartridge"
           [] address >= \h8000 /\ address <= \h9FFF -> "noop"
           [] address >= \hA000 /\ address <= \hBFFF -> "cartridge"
           [] address >= \hC000 /\ address <= \hDFFF -> "wram"
           [] address >= \hE000 /\ address <= \hFDFF -> "panic"
           [] address >= \hFE00 /\ address <= \hFE9F -> "noop"
           [] address >= \hFEA0 /\ address <= \hFEFF -> "panic"
           [] address = \hFF00 -> "noop"
           [] address >= \hFF01 /\ address <= \hFF02 -> "serial"
           [] TimerRegion(address) -> "timer"
           [] address = \hFF0F -> "iflag"
           [] address >= \hFF10 /\ address <= \hFF3F -> "noop"
           [] address >= \hFF40 /\ address <= \hFF4B -> "noop"
           [] address = \hFF4D -> "noop"
           [] address = \hFF4F -> "noop"
           [] address = \hFF50 -> "noop"
           [] address >= \hFF51 /\ address <= \hFF55 -> "noop"
           [] address >= \hFF68 /\ address <= \hFF69 -> "noop"
           [] address = \hFF70 -> "noop"
           [] address >= \hFF80 /\ address <= \hFFFE -> "hram"
           [] address = \hFFFF -> "ienable"
           [] OTHER -> "panic"

\* whether read8(address) panics instead of returning
ReadPanics(M, address) ==
    LET dev == map(M.mmu.debug, address) IN
    \/ dev = "panic"
    \/ dev = "cartridge" /\ address >= RomLen

\* the byte device dev returns for a read of address; a cartridge byte not read
\* before is the byte rom[role] the step draws for that read
ReadDevice(M, dev, address, role) ==
    CASE dev = "cartridge" -> IF address \in DOMAIN M.cart THEN M.cart[address]
                              ELSE M.rom[role]
      [] dev = "noop" -> 0
      [] dev = "wram" -> RamRead(M.mmu.wram, address)
      [] dev = "hram" -> RamRead(M.mmu.hram, address)
      [] dev = "serial" -> IF address = \hFF01 THEN M.mmu.serial.transfer
                           ELSE M.mmu.serial.control
      [] dev = "timer" -> TimerRead(M.mmu.timer, address)
      [] dev = "iflag" -> M.mmu.iflag
      [] dev = "ienable" -> M.mmu.ienable
      [] dev = "tmp_dummy_lcd" -> \h90
      [] OTHER -> 0

\* the value read8(address) returns
Rd(M, address, role) == ReadDevice(M, map(M.mmu.debug, address), address, role)

\* the machine after read8(address)
RdT(M, address, role) ==
    IF M.fault.kind # "Ok" THEN M
    ELSE IF ReadPanics(M, address) THEN Panic(M)
    ELSE IF map(M.mmu.debug, address) = "cartridge" /\ address \notin DOMAIN M.cart
         THEN [M EXCEPT !.used = @ \cup {role},
                        !.cart = [a \in DOMAIN @ \cup {address} |->
                                     IF a = address THEN M.rom[role] ELSE @[a]]]
    ELSE M

\* the machine after device dev takes a write of value at address
WriteDevice(M, dev, address, value) ==
    CASE dev = "cartridge" -> Panic(M)
      [] dev = "panic" -> Panic(M)
      [] dev = "noop" -> M
      [] dev = "tmp_dummy_lcd" -> M
      [] dev = "wram" -> [M EXCEPT !.mmu.wram = RamWrite(@, address, value)]
      [] dev = "hram" -> [M EXCEPT !.mmu.hram = RamWrite(@, address, value)]
      [] dev = "serial" ->
           IF address = \hFF01 THEN [M EXCEPT !.mmu.serial.transfer = value]
           ELSE [M EXCEPT !.mmu.serial.control = value]
      [] dev = "timer" -> [M EXCEPT !.mmu.timer = TimerWrite(@, address, value)]
      [] dev = "iflag" -> [M EXCEPT !.mmu.iflag = value]
      [] dev = "ienable" -> [M EXCEPT !.mmu.ienable = value]

\* the machine after write8(address, value)
write8(M, address, value) ==
    IF M.fault.kind # "Ok" THEN M
    ELSE WriteDevice(M, map(M.mmu.debug, address), address, value)

\* `x + n` on a u16 of the bus or the program counter: a panic when the build checks
\* overflow, a wrap when it does not
AddOverflows(x, n) == x + n > 65535

Overflow(M, x, n) == IF AddOverflows(x, n) /\ M.checks THEN Panic(M) ELSE M

\* read16: low at address, high at address + 1
Rd16(M, address, r1, r2) ==
    Rd(M, u16(address + 1), r2) * 256 + Rd(M, address, r1)

Rd16T(M, address, r1, r2) ==
    RdT(Overflow(RdT(M, address, r1), address, 1), u16(address + 1), r2)

write16_HighFirst(M, address, value) ==
    LET low == u8(value)
        high == u8(value \div 256)
    IN  write8(Overflow(write8(M, address, high), address, 1), u16(address + 1), low)

write16(M, address, value) ==
    LET low == u8(value)
        high == u8(value \div 256)
    IN  write8(Overflow(write8(M, address, low), address, 1), u16(address + 1), high)

-----------------------------------------------------------------------------
(* CPU helpers: src/src/cpu.rs                                              *)

Fail(M, f) == IF M.fault.kind = "Ok" THEN [M EXCEPT !.fault = f] ELSE M

WithT(M, t) == [M EXCEPT !.t = t]

WithR(M, r) == [M EXCEPT !.registers = r]

\* flags!(registers, Z: z, N: n, H: h, C: c)
flags4(r, z, n, h, c) ==
    set_flag(set_flag(set_flag(set_flag(r, FlagZ, z), FlagN, n), FlagH, h), FlagC, c)

\* fetch8: `pc += 1` and then read8(old pc)
FetchT(M, role) ==
    LET pc == M.registers.pc
        M1 == Overflow(M, pc, 1)
    IN  RdT([M1 EXCEPT !.registers.pc = u16(pc + 1)], pc, role)

\* fetch16: `pc += 2` and then read16(old pc)
Fetch16T(M) ==
    LET pc == M.registers.pc
        M1 == Overflow(M, pc, 2)
    IN  Rd16T([M1 EXCEPT !.registers.pc = u16(pc + 2)], pc, "n1", "n2")

push_AtOldSp(M, value) ==
    LET sp == u16(M.registers.sp + 65536 - 2)
    IN  write16([M EXCEPT !.registers.sp = sp], M.registers.sp, value)

push(M, value) ==
    LET sp == u16(M.registers.sp + 65536 - 2)
    IN  write16([M EXCEPT !.registers.sp = sp], sp, value)

\* pop: the value read (of the machine before the pop) and the machine after it
PopValue(M) == Rd16(M, M.registers.sp, "d1", "d2")

PopT(M) ==
    LET M1 == Rd16T(M, M.registers.sp, "d1", "d2")
    IN  [M1 EXCEPT !.registers.sp = u16(M.registers.sp + 2)]

\* the unary helpers return [r |-> the registers with the flags set, v |-> the result]
inc8(r, value) ==
    LET result == u8(value + 1) IN
    [r |-> set_flag(set_flag(set_flag(r, FlagZ, result = 0), FlagN, FALSE),
                    FlagH, value % 16 = 15),
     v |-> result]

dec8(r, value) ==
    LET result == u8(value + 255) IN
    [r |-> set_flag(set_flag(set_flag(r, FlagZ, result = 0), FlagN, TRUE),
                    FlagH, value % 16 = 0),
     v |-> result]

alu_add_TwoStep(r, value, carry) ==
    LET result == u8(u8(r.a + value) + carry) IN
    [flags4(r, result = 0, FALSE,
            (r.a % 16) + (u8(value + carry) % 16) > 15,
            r.a + u8(value + carry) > 255)
     EXCEPT !.a = result]

alu_add(r, value, carry) ==
    LET result == u8(u8(r.a + value) + carry) IN
    [flags4(r, result = 0, FALSE,
            (r.a % 16) + (value % 16) + carry > 15,
            r.a + value + carry > 255)
     EXCEPT !.a = result]

add8(r, value) == alu_add(r, value, 0)

adc8(r, value) == alu_add(r, value, IF flag(r, FlagC) THEN 1 ELSE 0)

alu_sub_Wrapped(r, value, carry) ==
    LET result == u8(u8(r.a + 256 - value) + 256 - carry) IN
    [flags4(r, result = 0, TRUE,
            (r.a % 16) < (u8(value + carry) % 16),
            r.a < u8(value + carry))
     EXCEPT !.a = result]

alu_sub(r, value, carry) ==
    LET result == u8(u8(r.a + 256 - value) + 256 - carry) IN
    [flags4(r, result = 0, TRUE,
            (r.a % 16) < (value % 16) + carry,
            r.a < value + carry)
     EXCEPT !.a = result]

sub8(r, value) == alu_sub(r, value, 0)

sbc8(r, value) == alu_sub(r, value, IF flag(r, FlagC) THEN 1 ELSE 0)

and8(r, value) ==
    LET result == BitAnd(r.a, value) IN
    [flags4(r, result = 0, FALSE, TRUE, FALSE) EXCEPT !.a = result]

xor8(r, value) ==
    LET result == BitXor(r.a, value) IN
    [flags4(r, result = 0, FALSE, FALSE, FALSE) EXCEPT !.a = result]

or8(r, value) ==
    LET result == BitOr(r.a, value) IN
    [flags4(r, result = 0, FALSE, FALSE, FALSE) EXCEPT !.a = result]

cp8(r, value) == [sub8(r, value) EXCEPT !.a = r.a]

add16(r, value) ==
    LET h == hl(r)
        r1 == set_hl(r, u16(h + value))
    IN  set_flag(set_flag(set_flag(r1, FlagN, FALSE),
                          FlagH, (h % 4096) + (value % 4096) > 4095),
                 FlagC, h + value > 65535)

rlc(r, value) ==
    LET carry == value >= 128
        result == u8(value * 2) + (IF carry THEN 1 ELSE 0)
    IN  [r |-> flags4(r, result = 0, FALSE, FALSE, carry), v |-> result]

rl(r, value) ==
    LET carry == value >= 128
        result == u8(value * 2) + (IF flag(r, FlagC) THEN 1 ELSE 0)
    IN  [r |-> flags4(r, result = 0, FALSE, FALSE, carry), v |-> result]

rrc(r, value) ==
    LET carry == value % 2 = 1
        result == (value \div 2) + (IF carry THEN 128 ELSE 0)
    IN  [r |-> flags4(r, result = 0, FALSE, FALSE, carry), v |-> result]

rr(r, value) ==
    LET carry == value % 2 = 1
        result == (value \div 2) + (IF flag(r, FlagC) THEN 128 ELSE 0)
    IN  [r |-> flags4(r, result = 0, FALSE, FALSE, carry), v |-> result]

sra(r, value) ==
    LET carry == value % 2 = 1
        result == (value \div 2) + (IF value >= 128 THEN 128 ELSE 0)
    IN  [r |-> flags4(r, result = 0, FALSE, FALSE, carry), v |-> result]

sla(r, value) ==
    LET carry == value >= 128
        result == u8(value * 2)
    IN  [r |-> flags4(r, result = 0, FALSE, FALSE, carry), v |-> result]

swap(r, value) ==
    LET result == (value \div 16) + u8(value * 16)
    IN  [r |-> flags4(r, result = 0, FALSE, FALSE, FALSE), v |-> result]

srl(r, value) ==
    LET carry == value % 2 = 1
        result == value \div 2
    IN  [r |-> flags4(r, result = 0, FALSE, FALSE, carry), v |-> result]

Pow2(n) == CASE n = 0 -> 1 [] n = 1 -> 2 [] n = 2 -> 4 [] n = 3 -> 8
             [] n = 4 -> 16 [] n = 5 -> 32 [] n = 6 -> 64 [] n = 7 -> 128

bit(r, b, value) ==
    LET result == BitAnd(value, Pow2(b))
    IN  set_flag(set_flag(set_flag(r, FlagZ, result = 0), FlagN, FALSE), FlagH, TRUE)

res(b, value) == BitAnd(value, BitNot(Pow2(b)))

set(b, value) == BitOr(value, Pow2(b))

daa_IgnoresN(r) ==
    LET o1 == IF flag(r, FlagC) \/ r.a > \h99 THEN \h60 ELSE 0
        offset == IF flag(r, FlagH) \/ r.a % 16 > 9 THEN BitOr(o1, \h06) ELSE o1
        a == IF flag(r, FlagN) THEN u8(r.a + 256 - offset) ELSE u8(r.a + offset)
        r1 == [r EXCEPT !.a = a]
    IN  set_flag(set_flag(set_flag(r1, FlagZ, a = 0), FlagH, FALSE),
                 FlagC, offset >= \h60)

daa(r) ==
    LET carry == r.a > \h99
        o1 == IF flag(r, FlagC) \/ (~flag(r, FlagN) /\ carry) THEN \h60 ELSE 0
        half_carry == r.a % 16 > 9
        offset == IF flag(r, FlagH) \/ (~flag(r, FlagN) /\ half_carry)
                  THEN BitOr(o1, \h06) ELSE o1
        a == IF flag(r, FlagN) THEN u8(r.a + 256 - offset) ELSE u8(r.a + offset)
        r1 == [r EXCEPT !.a = a]
    IN  set_flag(set_flag(set_flag(r1, FlagZ, a = 0), FlagH, FALSE),
                 FlagC, offset >= \h60)

\* jr(condition): the operand is fetched either way
jr_SkipsOperand(M, condition, value, F1) ==
    IF ~condition THEN M
    ELSE [F1 EXCEPT !.registers.pc = u16(@ + SignExtend(value))]

jr(M, condition, value, F1) ==
    IF ~condition THEN F1
    ELSE [F1 EXCEPT !.registers.pc = u16(@ + SignExtend(value))]

-----------------------------------------------------------------------------
(* Instruction decode: CPU::next and CPU::cb, src/src/cpu.rs                *)

\* operand position k of an opcode's register field: B C D E H L (HL) A
RegName == <<"b", "c", "d", "e", "h", "l", "hl", "a">>

GetR8(M, k) ==
    IF k = 6 THEN Rd(M, hl(M.registers), "d1") ELSE M.registers[RegName[k + 1]]

GetR8T(M, k) == IF k = 6 THEN RdT(M, hl(M.registers), "d1") ELSE M

SetR8(M, k, value) ==
    IF k = 6 THEN write8(M, hl(M.registers), value)
    ELSE [M EXCEPT !.registers[RegName[k + 1]] = value]

\* register pair k: BC DE HL SP
GetR16(r, k) == CASE k = 0 -> bc(r) [] k = 1 -> de(r) [] k = 2 -> hl(r) [] k = 3 -> r.sp

SetR16(r, k, value) ==
    CASE k = 0 -> set_bc(r, value)
      [] k = 1 -> set_de(r, value)
      [] k = 2 -> set_hl(r, value)
      [] k = 3 -> [r EXCEPT !.sp = value]

\* condition k: NZ Z NC C
Cond(r, k) ==
    CASE k = 0 -> ~flag(r, FlagZ)
      [] k = 1 -> flag(r, FlagZ)
      [] k = 2 -> ~flag(r, FlagC)
      [] k = 3 -> flag(r, FlagC)

\* 8-bit arithmetic k on A: ADD ADC SUB SBC AND XOR OR CP
Alu(r, k, value) ==
    CASE k = 0 -> add8(r, value)
      [] k = 1 -> adc8(r, value)
      [] k = 2 -> sub8(r, value)
      [] k = 3 -> sbc8(r, value)
      [] k = 4 -> and8(r, value)
      [] k = 5 -> xor8(r, value)
      [] k = 6 -> or8(r, value)
      [] k = 7 -> cp8(r, value)

\* CB rotate/shift k: RLC RRC RL RR SLA SRA SWAP SRL
Rot(r, k, value) ==
    CASE k = 0 -> rlc(r, value)
      [] k = 1 -> rrc(r, value)
      [] k = 2 -> rl(r, value)
      [] k = 3 -> rr(r, value)
      [] k = 4 -> sla(r, value)
      [] k = 5 -> sra(r, value)
      [] k = 6 -> swap(r, value)
      [] k = 7 -> srl(r, value)

IllegalOpcodes ==
    {\hD3, \hDB, \hDD, \hE3, \hE4, \hEB, \hEC, \hED, \hF4, \hFC, \hFD}

\* the CB operation g on operand k, of value `value`, V being the machine after
\* the operand was read
CbApply(V, k, g, value) ==
    CASE g < 8 ->
           LET o == Rot(V.registers, g, value)
           IN  WithT(SetR8(WithR(V, o.r), k, o.v), IF k = 6 THEN 16 ELSE 8)
      [] g >= 8 /\ g < 16 ->
           WithT(WithR(V, bit(V.registers, g - 8, value)), IF k = 6 THEN 12 ELSE 8)
      [] g >= 16 /\ g < 24 ->
           WithT(SetR8(V, k, res(g - 16, value)), IF k = 6 THEN 16 ELSE 8)
      [] g >= 24 ->
           WithT(SetR8(V, k, set(g - 24, value)), IF k = 6 THEN 16 ELSE 8)

\* cb(): F is the machine after the fetch of the opcode op that follows the prefix
cb(F, op) == CbApply(GetR8T(F, op % 8), op % 8, op \div 8, GetR8(F, op % 8))

\* opcodes 0x00 - 0x3F, M being the machine after the opcode fetch
Block0(M, op, n1, n16, F1, F2) ==
    LET r == M.registers
        col == op % 8
        row == op \div 8
    IN  CASE col = 0 /\ row = 0 -> WithT(M, 4)
          [] col = 0 /\ row = 1 -> WithT(write16(F2, n16, r.sp), 20)
          [] col = 0 /\ row = 2 -> WithT(M, 4)
          [] col = 0 /\ row = 3 -> WithT(jr(M, TRUE, n1, F1), 12)
          [] col = 0 /\ row >= 4 ->
               WithT(jr(M, Cond(r, row - 4), n1, F1), IF Cond(r, row - 4) THEN 12 ELSE 8)
          [] col = 1 /\ row % 2 = 0 ->
               WithT(WithR(F2, SetR16(F2.registers, row \div 2, n16)), 12)
          [] col = 1 /\ row % 2 = 1 ->
               WithT(WithR(M, add16(r, GetR16(r, row \div 2))), 8)
          [] col = 2 /\ row % 2 = 0 ->
               LET addr == CASE row = 0 -> bc(r) [] row = 2 -> de(r) [] OTHER -> hl(r)
                   W == write8(M, addr, r.a)
               IN  WithT(CASE row = 4 -> WithR(W, set_hl(r, u16(hl(r) + 1)))
                           [] row = 6 -> WithR(W, set_hl(r, u16(hl(r) + 65535)))
                           [] OTHER -> W, 8)
          [] col = 2 /\ row % 2 = 1 ->
               LET addr == CASE row = 1 -> bc(r) [] row = 3 -> de(r) [] OTHER -> hl(r)
                   V == RdT(M, addr, "d1")
                   r1 == [r EXCEPT !.a = Rd(M, addr, "d1")]
               IN  WithT(CASE row = 5 -> WithR(V, set_hl(r1, u16(hl(r) + 1)))
                           [] row = 7 -> WithR(V, set_hl(r1, u16(hl(r) + 65535)))
                           [] OTHER -> WithR(V, r1), 8)
          [] col = 3 /\ row % 2 = 0 ->
               WithT(WithR(M, SetR16(r, row \div 2, u16(GetR16(r, row \div 2) + 1))), 8)
          [] col = 3 /\ row % 2 = 1 ->
               WithT(WithR(M, SetR16(r, row \div 2, u16(GetR16(r, row \div 2) + 65535))), 8)
          [] col = 4 ->
               LET V == GetR8T(M, row)
                   o == inc8(r, GetR8(M, row))
               IN  WithT(SetR8(WithR(V, o.r), row, o.v), IF row = 6 THEN 12 ELSE 4)
          [] col = 5 ->
               LET V == GetR8T(M, row)
                   o == dec8(r, GetR8(M, row))
               IN  WithT(SetR8(WithR(V, o.r), row, o.v), IF row = 6 THEN 12 ELSE 4)
          [] col = 6 -> WithT(SetR8(F1, row, n1), IF row = 6 THEN 12 ELSE 8)
          [] col = 7 /\ row = 0 ->
               LET o == rlc(r, r.a)
               IN  WithT(WithR(M, set_flag([o.r EXCEPT !.a = o.v], FlagZ, FALSE)), 4)
          [] col = 7 /\ row = 1 ->
               LET o == rrc(r, r.a)
               IN  WithT(WithR(M, set_flag([o.r EXCEPT !.a = o.v], FlagZ, FALSE)), 4)
          [] col = 7 /\ row = 2 ->
               LET o == rl(r, r.a)
               IN  WithT(WithR(M, set_flag([o.r EXCEPT !.a = o.v], FlagZ, FALSE)), 4)
          [] col = 7 /\ row = 3 ->
               LET o == rr(r, r.a)
               IN  WithT(WithR(M, set_flag([o.r EXCEPT !.a = o.v], FlagZ, FALSE)), 4)
          [] col = 7 /\ row = 4 -> WithT(WithR(M, daa(r)), 4)
          [] col = 7 /\ row = 5 ->
               WithT(WithR(M, set_flag(set_flag([r EXCEPT !.a = BitNot(r.a)],
                                                FlagN, TRUE), FlagH, TRUE)), 4)
          [] col = 7 /\ row = 6 ->
               WithT(WithR(M, set_flag(set_flag(set_flag(r, FlagN, FALSE),
                                                FlagH, FALSE), FlagC, TRUE)), 4)
          [] col = 7 /\ row = 7 ->
               WithT(WithR(M, set_flag(set_flag(set_flag(r, FlagN, FALSE),
                                                FlagH, FALSE), FlagC, ~flag(r, FlagC))), 4)

\* opcodes 0x40 - 0x7F: LD r, r' and HALT
Block1(M, op) ==
    LET dst == (op - 64) \div 8
        src == op % 8
    IN  IF op = \h76 THEN WithT([M EXCEPT !.halted = TRUE], 4)
        ELSE WithT(SetR8(GetR8T(M, src), dst, GetR8(M, src)),
                   IF src = 6 \/ dst = 6 THEN 8 ELSE 4)

\* opcodes 0x80 - 0xBF: arithmetic on A
Block2(M, op) ==
    LET k == (op - 128) \div 8
        src == op % 8
        V == GetR8T(M, src)
    IN  WithT(WithR(V, Alu(M.registers, k, GetR8(M, src))), IF src = 6 THEN 8 ELSE 4)

\* ADD SP, e8 and LD HL, SP + e8: the sum and the registers with the flags set
AddSpE8_Wide(r, e8) ==
    LET value == SignExtend(e8)
        sp == r.sp
    IN  [r |-> flags4(r, FALSE, FALSE,
                      (sp % 4096) + (value % 4096) > 4095,
                      sp + value > 65535),
         v |-> u16(sp + value)]

AddSpE8(r, e8) ==
    LET value == SignExtend(e8)
        sp == r.sp
    IN  [r |-> flags4(r, FALSE, FALSE,
                      (sp % 16) + (value % 16) > 15,
                      (sp % 256) + (value % 256) > 255),
         v |-> u16(sp + value)]

\* opcodes 0xC0 - 0xFF
Block3(M, op, n1, n16, F1, F2, P, popped) ==
    LET r == M.registers
        col == op % 8
        row == (op - 192) \div 8
    IN  CASE op \in IllegalOpcodes -> Fail(M, IllegalInstruction(op))
          [] col = 0 /\ row < 4 ->
               IF Cond(r, row) THEN WithT([P EXCEPT !.registers.pc = popped], 20)
               ELSE WithT(M, 8)
          [] op = \hE0 -> WithT(write8(F1, \hFF00 + n1, r.a), 12)
          [] op = \hE8 ->
               LET o == AddSpE8(F1.registers, n1)
               IN  WithT(WithR(F1, [o.r EXCEPT !.sp = o.v]), 16)
          [] op = \hF0 ->
               WithT([RdT(F1, \hFF00 + n1, "d1")
                      EXCEPT !.registers.a = Rd(F1, \hFF00 + n1, "d1")], 12)
          [] op = \hF8 ->
               LET o == AddSpE8(F1.registers, n1)
               IN  WithT(WithR(F1, flags4(set_hl(F1.registers, o.v), FALSE, FALSE,
                                          flag(o.r, FlagH), flag(o.r, FlagC))), 12)
          [] col = 1 /\ row % 2 = 0 ->
               WithT(WithR(P, CASE row = 0 -> set_bc(P.registers, popped)
                                [] row = 2 -> set_de(P.registers, popped)
                                [] row = 4 -> set_hl(P.registers, popped)
                                [] row = 6 -> set_af(P.registers, popped)), 12)
          [] op = \hC9 -> WithT([P EXCEPT !.registers.pc = popped], 16)
          [] op = \hD9 ->
               WithT([P EXCEPT !.registers.pc = popped,
                               !.interrupts = enable(@, TRUE)], 16)
          [] op = \hE9 -> WithT([M EXCEPT !.registers.pc = hl(r)], 4)
          [] op = \hF9 -> WithT([M EXCEPT !.registers.sp = hl(r)], 8)
          [] col = 2 /\ row < 4 ->
               IF Cond(r, row) THEN WithT([F2 EXCEPT !.registers.pc = n16], 16)
               ELSE WithT(F2, 12)
          [] op = \hE2 -> WithT(write8(M, \hFF00 + r.c, r.a), 8)
          [] op = \hEA -> WithT(write8(F2, n16, r.a), 16)
          [] op = \hF2 ->
               WithT([RdT(M, \hFF00 + r.c, "d1")
                      EXCEPT !.registers.a = Rd(M, \hFF00 + r.c, "d1")], 8)
          [] op = \hFA ->
               WithT([RdT(F2, n16, "d1") EXCEPT !.registers.a = Rd(F2, n16, "d1")], 16)
          [] op = \hC3 -> WithT([F2 EXCEPT !.registers.pc = n16], 16)
          [] op = \hCB -> cb(F1, n1)
          [] op = \hF3 -> WithT([M EXCEPT !.interrupts = disable(@)], 4)
          [] op = \hFB -> WithT([M EXCEPT !.interrupts = enable(@, FALSE)], 4)
          [] col = 4 /\ row < 4 ->
               IF Cond(r, row)
               THEN WithT([push(F2, F2.registers.pc) EXCEPT !.registers.pc = n16], 24)
               ELSE WithT(F2, 12)
          [] col = 5 /\ row % 2 = 0 ->
               WithT(push(M, CASE row = 0 -> bc(r) [] row = 2 -> de(r)
                               [] row = 4 -> hl(r) [] row = 6 -> af(r)), 16)
          [] op = \hCD ->
               WithT([push(F2, F2.registers.pc) EXCEPT !.registers.pc = n16], 24)
          [] col = 6 -> WithT(WithR(F1, Alu(F1.registers, row, n1)), 8)
          [] col = 7 -> WithT([push(M, r.pc) EXCEPT !.registers.pc = row * 8], 16)

\* the instruction op, M being the machine after its fetch: n1 and n16 are the
\* operand bytes that follow it, F1 and F2 the machine after fetch8 and fetch16
Decode(M, op, n1, n16, F1, F2) ==
    CASE op < 64 -> Block0(M, op, n1, n16, F1, F2)
      [] op >= 64 /\ op < 128 -> Block1(M, op)
      [] op >= 128 /\ op < 192 -> Block2(M, op)
      [] op >= 192 -> Block3(M, op, n1, n16, F1, F2, PopT(M), PopValue(M))

Execute(M, op) ==
    Decode(M, op, Rd(M, M.registers.pc, "n1"), Rd16(M, M.registers.pc, "n1", "n2"),
           FetchT(M, "n1"), Fetch16T(M))

\* next(): fetch one opcode and execute it; .t is the T-cycle count it returns and
\* .fault the Err it returns instead
next(M0) ==
    Execute(FetchT([M0 EXCEPT !.fetched = @ + 1], "op"), Rd(M0, M0.registers.pc, "op"))

\* interrupt() without step 4, the unhalt
interrupt_StaysHalted(M, handler) ==
    LET P == push(M, M.registers.pc)
        address == handler_address(handler)
    IN  IF address[1] = "Err" THEN Fail(P, InvalidInterrupt(address[2]))
        ELSE [P EXCEPT !.registers.pc = address[2],
                       !.mmu.iflag = BitAnd(@, BitNot(handler)),
                       !.interrupts.ime = FALSE]

\* interrupt() without step 3, the clearing of the serviced flag
interrupt_KeepsFlag(M, handler) ==
    LET P == push(M, M.registers.pc)
        address == handler_address(handler)
    IN  IF address[1] = "Err" THEN Fail(P, InvalidInterrupt(address[2]))
        ELSE [P EXCEPT !.registers.pc = address[2],
                       !.halted = FALSE,
                       !.interrupts.ime = FALSE]

\* interrupt() pushing the address of the HALT that a halted CPU stopped after
interrupt_PushesHalt(M, handler) ==
    LET P == push(M, IF M.halted THEN u16(M.registers.pc + 65535) ELSE M.registers.pc)
        address == handler_address(handler)
    IN  IF address[1] = "Err" THEN Fail(P, InvalidInterrupt(address[2]))
        ELSE [P EXCEPT !.registers.pc = address[2],
                       !.mmu.iflag = BitAnd(@, BitNot(handler)),
                       !.halted = FALSE,
                       !.interrupts.ime = FALSE]

\* interrupt() clearing the whole of IF
interrupt_ClearsRequests(M, handler) ==
    LET P == push(M, M.registers.pc)
        address == handler_address(handler)
    IN  IF address[1] = "Err" THEN Fail(P, InvalidInterrupt(address[2]))
        ELSE [P EXCEPT !.registers.pc = address[2],
                       !.mmu.iflag = 0,
                       !.halted = FALSE,
                       !.interrupts.ime = FALSE]

\* interrupt(handler)
interrupt(M, handler) ==
    LET P == push(M, M.registers.pc)
        address == handler_address(handler)
    IN  IF address[1] = "Err" THEN Fail(P, InvalidInterrupt(address[2]))
        ELSE [P EXCEPT !.registers.pc = address[2],
                       !.mmu.iflag = BitAnd(@, BitNot(handler)),
                       !.halted = FALSE,
                       !.interrupts.ime = FALSE]

\* ticks(t) leaving the timer's interrupt pending after latching it
ticks_StaysPending(M, t) ==
    LET timer == TimerTicks(M.mmu.timer, t)
    IN  IF timer.interrupt
        THEN [M EXCEPT !.mmu.timer = timer,
                       !.mmu.iflag = BitOr(@, TIMER),
                       !.ticked = @ + t,
                       !.latched = TRUE]
        ELSE [M EXCEPT !.mmu.timer = timer, !.ticked = @ + t]

\* ticks(t) clearing the timer's interrupt without setting TIMER in IF
ticks_DropsLatch(M, t) ==
    LET timer == TimerTicks(M.mmu.timer, t)
    IN  IF timer.interrupt
        THEN [M EXCEPT !.mmu.timer = [timer EXCEPT !.interrupt = FALSE],
                       !.ticked = @ + t,
                       !.latched = TRUE]
        ELSE [M EXCEPT !.mmu.timer = timer, !.ticked = @ + t]

\* ticks(t): the timer advances t T-cycles and its interrupt is latched into IF
ticks(M, t) ==
    LET timer == TimerTicks(M.mmu.timer, t)
    IN  IF timer.interrupt
        THEN [M EXCEPT !.mmu.timer = [timer EXCEPT !.interrupt = FALSE],
                       !.mmu.iflag = BitOr(@, TIMER),
                       !.ticked = @ + t,
                       !.latched = TRUE]
        ELSE [M EXCEPT !.mmu.timer = timer, !.ticked = @ + t]

\* step() returning without a call of ticks()
Account_NoTicks(N) == N

\* step() after the instruction or the interrupt dispatch: an Err is returned as
\* it is, otherwise the T-cycles are accounted
Account(N) == IF N.fault.kind # "Ok" THEN N ELSE ticks(N, N.t)

\* which branch step() takes once update() has run on machine U
StepKind(U) ==
    IF requested(U.interrupts, U.halted, U.mmu.ienable, U.mmu.iflag) # None
    THEN "service"
    ELSE IF U.halted THEN "idle" ELSE "execute"

\* step() on machine U, which update() has run on: the branch that dispatches the
\* requested interrupt
service(U) ==
    Account(WithT(interrupt(U, requested(U.interrupts, U.halted, U.mmu.ienable,
                                         U.mmu.iflag)[1]), 16))

\* the idle branch testing IF before it charges the 4 T-cycles
idle_TestsFirst(U) ==
    LET T == ticks(U, 4)
    IN  IF U.mmu.iflag # 0 THEN [T EXCEPT !.halted = FALSE] ELSE T

\* the branch that idles a halted CPU
idle(U) ==
    LET T == ticks(U, 4)
    IN  IF T.mmu.iflag # 0 THEN [T EXCEPT !.halted = FALSE] ELSE T

\* the branch that executes one instruction
execute(U) == Account(next(U))

-----------------------------------------------------------------------------
(* The machine as a state machine: CPU::new, then CPU::boot calling step()  *)

\* opcodes of the "core" images: NOP, LD SP n16, HALT, an illegal opcode, RETI,
\* LDH (a8) A, DI, EI
CoreOpcodes == {\h00, \h31, \h76, \hD3, \hD9, \hE0, \hF3, \hFB}

\* opcodes of the "pending" images: NOP, HALT, an illegal opcode, RETI, DI, EI
Opcodes ==
    CASE image = "core" -> CoreOpcodes
      [] image = "pending" -> {\h00, \h76, \hD3, \hD9, \hF3, \hFB}
      [] OTHER -> Byte

\* immediate operands: low bytes 0x0F (IF) and 0xFF (IE), high byte 0x90 (VRAM)
Operands1 == {\h0F, \hFF}

\* other cartridge bytes read as data
RomData == {\h00, \h01}

Roles == {"op", "n1", "n2", "d1", "d2"}

Rom0 == [role \in Roles |-> 0]

\* the bytes a step may draw for a cartridge read in role `role`, given the opcode
RoleSet(role, op) ==
    CASE role = "op" -> Opcodes
      [] role = "n1" -> IF op \in {\hCB, \hE8, \hF8} THEN Byte ELSE Operands1
      [] role = "n2" -> {\h90}
      [] OTHER -> RomData

\* the CPU before a step() call that will draw the bytes rom
Machine(rom) ==
    [registers |-> registers, mmu |-> mmu, halted |-> halted,
     interrupts |-> interrupts, fault |-> fault, checks |-> overflow_checks,
     cart |-> cartridge, rom |-> rom, used |-> {}, t |-> 0,
     fetched |-> 0, ticked |-> 0, latched |-> FALSE]

\* the CPU of a step() call once update() has run
Updated(rom) == [Machine(rom) EXCEPT !.interrupts = update(@)]

\* the opcode at the program counter for a step() call that draws the bytes rom
Opcode(rom) == Rd(Machine(rom), registers.pc, "op")

\* the order in which a step reads the roles
RoleOrder == <<"op", "n1", "n2", "d1", "d2">>

\* the outcomes of executing one instruction with the first k roles drawn: a role
\* takes a byte of its set when the step reads it from the cartridge for the first
\* time, otherwise only 0
RECURSIVE Draws(_)
Draws(k) ==
    {execute(Updated(rom)) :
        rom \in IF k = 0 THEN {Rom0}
                ELSE UNION {{[N.rom EXCEPT ![RoleOrder[k]] = v] :
                                v \in IF RoleOrder[k] \in N.used
                                      THEN RoleSet(RoleOrder[k], Opcode(N.rom)) ELSE {0}} :
                            N \in Draws(k - 1)}}

\* every image-consistent outcome of executing one instruction
Outcomes == Draws(5)

Budget ==
    CASE image = "core" -> MaxSteps
      [] image = "pending" -> MaxPendingSteps
      [] OTHER -> MaxDecodeSteps

\* whether address decodes to work RAM or high RAM
InRam(address) == map(mmu.debug, address) \in {"wram", "hram"}

\* what is observed of one step() call
Observation(M, kind) ==
    LET U == update(interrupts)
        handler == requested(U, halted, mmu.ienable, mmu.iflag)
    IN  [kind |-> kind,
         result |-> M.fault.kind,
         code |-> M.fault.code,
         t |-> M.t,
         fetched |-> M.fetched,
         ticked |-> M.ticked,
         latched |-> M.latched,
         op |-> Opcode(M.rom),
         ime0 |-> interrupts.ime,
         ei0 |-> interrupts.ei,
         di0 |-> interrupts.di,
         ime |-> U.ime,
         ei |-> U.ei,
         di |-> U.di,
         halted0 |-> halted,
         ienable0 |-> mmu.ienable,
         iflag0 |-> mmu.iflag,
         handler |-> handler,
         pc0 |-> registers.pc,
         sp0 |-> registers.sp,
         pc |-> M.registers.pc,
         sp |-> M.registers.sp,
         iflag |-> M.mmu.iflag,
         ime1 |-> M.interrupts.ime,
         ei1 |-> M.interrupts.ei,
         di1 |-> M.interrupts.di,
         halted |-> M.halted,
         stored |-> Rd16(M, M.registers.sp, "d1", "d2")]

\* the CPU becomes M; a panic ends the process where it stands
Commit(M, kind) ==
    IF M.fault.kind = "Panic"
    THEN /\ fault' = PanicFault
         /\ UNCHANGED <<registers, mmu, halted, interrupts, cartridge,
                        overflow_checks, image, history>>
    ELSE /\ registers' = M.registers
         /\ mmu' = M.mmu
         /\ halted' = M.halted
         /\ interrupts' = M.interrupts
         /\ cartridge' = M.cart
         /\ fault' = M.fault
         /\ history' = Append(history, Observation(M, kind))
         /\ UNCHANGED <<overflow_checks, image>>

Kind == StepKind(Updated(Rom0))

Init ==
    /\ \E checksum \in {\h00, \h66} :      \* header checksum byte, at 0x014D
          /\ registers = RegistersNew(checksum)
          /\ cartridge = [a \in {\h014D} |-> checksum]
    /\ mmu = MemoryNew
    /\ halted = FALSE
    /\ interrupts = InterruptsDefault
    /\ fault = Ok
    /\ overflow_checks \in BOOLEAN
    /\ image \in {"core", "any"}
    /\ history = <<>>

Running == fault.kind = "Ok" /\ Len(history) < Budget

\* step() dispatches a requested interrupt
StepService ==
    /\ Running
    /\ Kind = "service"
    /\ Commit(service(Updated(Rom0)), "service")

\* step() idles a halted CPU for one machine cycle
StepHalted ==
    /\ Running
    /\ Kind = "idle"
    /\ Commit(idle(Updated(Rom0)), "idle")

\* step() fetches and executes one instruction
StepExecute ==
    /\ Running
    /\ Kind = "execute"
    /\ \E M \in Outcomes : Commit(M, "execute")

Next == StepService \/ StepHalted \/ StepExecute

Spec == Init /\ [][Next]_vars

-----------------------------------------------------------------------------
(* Interrupts::requested on its own, for every IE, IF, IME and halted        *)

InitRequested ==
    /\ registers = RegistersNew(\h00)
    /\ cartridge = [a \in {\h014D} |-> \h00]
    /\ \E ie \in Byte, if \in Byte :
          mmu = [MemoryNew EXCEPT !.ienable = ie, !.iflag = if]
    /\ halted \in BOOLEAN
    /\ \E ime \in BOOLEAN : interrupts = [InterruptsDefault EXCEPT !.ime = ime]
    /\ fault = Ok
    /\ overflow_checks = FALSE
    /\ image = "core"
    /\ history = <<>>

\* one call of requested(halted, IE, IF)
CallRequested ==
    /\ history = <<>>
    /\ history' = <<[kind |-> "requested",
                     ime |-> interrupts.ime,
                     halted0 |-> halted,
                     ienable0 |-> mmu.ienable,
                     iflag0 |-> mmu.iflag,
                     handler |-> requested(interrupts, halted, mmu.ienable, mmu.iflag)]>>
    /\ UNCHANGED <<registers, mmu, halted, interrupts, cartridge, fault,
                   overflow_checks, image>>

SpecRequested == InitRequested /\ [][CallRequested]_vars

-----------------------------------------------------------------------------
(* The timer on its own: Timer::write and CPU::ticks called on the power-on  *)
(* timer, in any order                                                       *)

\* bytes written to the timer's registers
TimerBytes(address) ==
    CASE address = \hFF04 -> {\hAB}
      [] address = \hFF05 -> {\hFF}
      [] address = \hFF06 -> {\hFE}
      [] address = \hFF07 -> {\h00, \h04, \h05, \h06, \h07, \hFB}

\* one iteration of the loop of Timer::ticks, watched: x.timer is the timer,
\* x.since the ticks since TIMA last incremented (-1 when not known), x.gaps the
\* distances between successive increments seen, x.wraps whether TIMA was
\* incremented from 0xFF, x.reloaded whether each such tick left TIMA = TMA with
\* the interrupt pending
WatchTick(x) ==
    [timer |-> TimerTick(x.timer),
     since |-> IF CounterTick(x.timer.tima).c.value # x.timer.tima.value THEN 0
               ELSE IF x.since = -1 THEN -1 ELSE x.since + 1,
     gaps |-> IF CounterTick(x.timer.tima).c.value # x.timer.tima.value /\ x.since # -1
              THEN x.gaps \cup {x.since + 1} ELSE x.gaps,
     wraps |-> x.wraps \/ (CounterTick(x.timer.tima).overflow),
     reloaded |-> x.reloaded /\ (CounterTick(x.timer.tima).overflow
                                    => /\ TimerTick(x.timer).tima.value = x.timer.tma
                                       /\ TimerTick(x.timer).interrupt)]

\* the loop of Timer::ticks, watched, taken in the same rounds as TimerTicks
RECURSIVE Watch(_, _)
Watch(x, n) ==
    IF n = 0 \/ x.wraps \notin BOOLEAN THEN x
    ELSE IF n >= 64
    THEN Watch(Watch(Watch(Watch(Watch(x, 16), 16), 16), 16), n - 64)
    ELSE IF n >= 4 THEN Watch(WatchTick(WatchTick(WatchTick(WatchTick(x)))), n - 4)
    ELSE Watch(WatchTick(x), n - 1)

\* what the watch starts from at a call: the distance since the last increment is
\* carried over from the call before, unless TAC is rewritten
Watched(rewritten) ==
    [timer |-> mmu.timer,
     since |-> IF history = <<>> \/ rewritten THEN -1 ELSE history[Len(history)].since,
     gaps |-> {}, wraps |-> FALSE, reloaded |-> TRUE]

\* the timer call is done: M is the CPU after it, x what the watch saw
TimerCommit(kind, address, value, t, M, x) ==
    /\ mmu' = M.mmu
    /\ history' = Append(history,
          [kind |-> kind, address |-> address, value |-> value, t |-> t,
           timer0 |-> mmu.timer, iflag0 |-> mmu.iflag,
           timer |-> M.mmu.timer, iflag |-> M.mmu.iflag, latched |-> M.latched,
           since |-> x.since, gaps |-> x.gaps, wraps |-> x.wraps,
           reloaded |-> x.reloaded])
    /\ UNCHANGED <<registers, halted, interrupts, cartridge, fault, overflow_checks,
                   image>>

InitTimer ==
    /\ registers = RegistersNew(\h00)
    /\ cartridge = [a \in {\h014D} |-> \h00]
    /\ \E if \in {\h00, \hFB} : mmu = [MemoryNew EXCEPT !.iflag = if]
    /\ halted = FALSE
    /\ interrupts = InterruptsDefault
    /\ fault = Ok
    /\ overflow_checks = FALSE
    /\ image = "core"
    /\ history = <<>>

\* Timer::write(address, value)
TimerStore ==
    /\ Len(history) < MaxTimerOps
    /\ \E address \in {\hFF04, \hFF05, \hFF06, \hFF07} :
          \E value \in TimerBytes(address) :
              TimerCommit("write", address, value, 0,
                          [Machine(Rom0) EXCEPT !.mmu.timer = TimerWrite(@, address, value)],
                          Watched(address = \hFF07))

\* CPU::ticks(t)
TimerCharge ==
    /\ Len(history) < MaxTimerOps
    /\ \E t \in {4, 16, 252, 1024} :
          TimerCommit("charge", 0, 0, t, ticks(Machine(Rom0), t), Watch(Watched(FALSE), t))

SpecTimer == InitTimer /\ [][TimerStore \/ TimerCharge]_vars

-----------------------------------------------------------------------------
(* One instruction from any flags: CPU::step() on an image over every       *)
(* opcode, the CPU being as after power-on but for F and SP                 *)

\* F before the instruction has each of Z and C clear and set, and all four set;
\* SP is in high RAM as at power-on, in the cartridge, or in work RAM; PC is at
\* the entry point, or on the last byte of the address space (IE)
InitInstruction ==
    /\ \E f \in {\h00, \h10, \h80, \h90, \hF0}, sp \in {\hFFFE, \h0000, \hC00F},
          pc \in {\h0100, \hFFFF} :
          registers = [RegistersNew(0) EXCEPT !.f = f, !.sp = sp, !.pc = pc]
    /\ cartridge = [a \in {\h014D} |-> 0]
    /\ mmu = MemoryNew
    /\ halted = FALSE
    /\ interrupts = InterruptsDefault
    /\ fault = Ok
    /\ overflow_checks \in BOOLEAN
    /\ image = "any"
    /\ history = <<>>

SpecInstruction == InitInstruction /\ [][StepExecute]_vars

-----------------------------------------------------------------------------
(* The register file on its own: Registers::new, then one pair setter       *)

PairNames == {"af", "bc", "de", "hl"}

\* set_af, set_bc, set_de or set_hl
SetPair(r, pair, value) ==
    CASE pair = "af" -> set_af(r, value)
      [] pair = "bc" -> set_bc(r, value)
      [] pair = "de" -> set_de(r, value)
      [] pair = "hl" -> set_hl(r, value)

\* af(), bc(), de() or hl()
GetPair(r, pair) ==
    CASE pair = "af" -> af(r)
      [] pair = "bc" -> bc(r)
      [] pair = "de" -> de(r)
      [] pair = "hl" -> hl(r)

InitRegisters == Init /\ image = "core" /\ ~overflow_checks

\* one call of a pair setter, then the pair getter and the two 8-bit fields
RegistersSet ==
    /\ history = <<>>
    /\ \E pair \in PairNames, value \in 0..65535 :
          /\ registers' = SetPair(registers, pair, value)
          /\ history' = <<[kind |-> pair, value |-> value,
                           pair |-> GetPair(registers', pair),
                           high |-> registers'[IF pair = "af" THEN "a"
                                               ELSE IF pair = "bc" THEN "b"
                                               ELSE IF pair = "de" THEN "d" ELSE "h"],
                           low |-> registers'[IF pair = "af" THEN "f"
                                              ELSE IF pair = "bc" THEN "c"
                                              ELSE IF pair = "de" THEN "e" ELSE "l"]]>>
    /\ UNCHANGED <<mmu, halted, interrupts, cartridge, fault, overflow_checks, image>>

\* daa() on the registers a setter has left
RegistersDaa ==
    /\ Len(history) = 1
    /\ registers' = daa(registers)
    /\ history' = Append(history, [kind |-> "daa", value |-> 0,
                                   a0 |-> registers.a, f0 |-> registers.f,
                                   a |-> registers'.a, f |-> registers'.f])
    /\ UNCHANGED <<mmu, halted, interrupts, cartridge, fault, overflow_checks, image>>

SpecRegisters == InitRegisters /\ [][RegistersSet \/ RegistersDaa]_vars

-----------------------------------------------------------------------------
(* The adder on its own: CPU::add8 and CPU::adc8 on any A, F and operand    *)

InitAlu ==
    /\ \E a \in Byte, f \in {\h00, \hF0} :
          registers = [RegistersNew(0) EXCEPT !.a = a, !.f = f]
    /\ cartridge = [a \in {\h014D} |-> 0]
    /\ mmu = MemoryNew
    /\ halted = FALSE
    /\ interrupts = InterruptsDefault
    /\ fault = Ok
    /\ overflow_checks = FALSE
    /\ image = "core"
    /\ history = <<>>

\* one call of add8(value) or adc8(value)
AluAdd ==
    /\ history = <<>>
    /\ \E kind \in {"add8", "adc8"}, value \in Byte :
          /\ registers' = IF kind = "add8" THEN add8(registers, value)
                          ELSE adc8(registers, value)
          /\ history' = <<[kind |-> kind, value |-> value,
                           a0 |-> registers.a, f0 |-> registers.f,
                           a |-> registers'.a, f |-> registers'.f]>>
    /\ UNCHANGED <<mmu, halted, interrupts, cartridge, fault, overflow_checks, image>>

\* one call of sub8(value), sbc8(value) or cp8(value)
AluSub ==
    /\ history = <<>>
    /\ \E kind \in {"sub8", "sbc8", "cp8"}, value \in Byte :
          /\ registers' = CASE kind = "sub8" -> sub8(registers, value)
                            [] kind = "sbc8" -> sbc8(registers, value)
                            [] kind = "cp8" -> cp8(registers, value)
          /\ history' = <<[kind |-> kind, value |-> value,
                           a0 |-> registers.a, f0 |-> registers.f,
                           a |-> registers'.a, f |-> registers'.f]>>
    /\ UNCHANGED <<mmu, halted, interrupts, cartridge, fault, overflow_checks, image>>

SpecAlu == InitAlu /\ [][AluAdd \/ AluSub]_vars

-----------------------------------------------------------------------------
(* The bus and the stack on their own: CPU::new, debug_mode(), then         *)
(* Memory::read8, read16, write8 then read8, write16 then read16, and        *)
(* CPU::push then CPU::pop                                                  *)

InitBus ==
    /\ \E sp \in {\hFFFE, \hFFFF, \hE000, \hC001} :
          registers = [RegistersNew(0) EXCEPT !.sp = sp]
    /\ cartridge = [a \in {\h014D} |-> 0]
    /\ \E debug \in BOOLEAN : mmu = [MemoryNew EXCEPT !.debug = debug]
    /\ halted = FALSE
    /\ interrupts = InterruptsDefault
    /\ fault = Ok
    /\ overflow_checks \in BOOLEAN
    /\ image = "core"
    /\ history = <<>>

\* one access: `read` is what the access, or the read or pop that follows the
\* write or push, returns; low and high are the bytes then held at the address
\* and the one after it; a panic ends the process, the memory being as it was
BusAccess ==
    /\ fault.kind = "Ok"
    /\ Len(history) < MaxBusOps
    /\ \E kind \in {"read8", "read16", "write8", "write16", "push"},
          a \in {\h8000, \h9FFF, \hC000, \hDFFE, \hDFFF, \hE000, \hFDFF, \hFE00,
                 \hFE9F, \hFEA0, \hFEFF, \hFF00, \hFF10, \hFF44, \hFF4B, \hFF80,
                 \hFFFD, \hFFFE, \hFFFF},
          v \in {\h0000, \h005A, \h12EF},
          d \in RomData :
          /\ kind \in {"read8", "read16"} => v = 0
          /\ kind = "write8" => v <= 255
          /\ kind = "push" => a = \h8000
          /\ kind # "read16" => d = 0
          /\ LET M0 == Machine([Rom0 EXCEPT !.d2 = d])
                 address == IF kind = "push" THEN u16(registers.sp + 65534) ELSE a
                 M1 == CASE kind = "read8" -> RdT(M0, address, "d1")
                         [] kind = "read16" -> Rd16T(M0, address, "d1", "d2")
                         [] kind = "write8" -> write8(M0, address, v)
                         [] kind = "write16" -> write16(M0, address, v)
                         [] kind = "push" -> push(M0, v)
                 M2 == CASE kind = "write8" -> RdT(M1, address, "d1")
                         [] kind = "write16" -> Rd16T(M1, address, "d1", "d2")
                         [] kind = "push" -> PopT(M1)
                         [] OTHER -> M1
                 ok == M2.fault.kind = "Ok"
             IN  /\ history' = Append(history,
                       [kind |-> kind, address |-> address, value |-> v,
                        result |-> M2.fault.kind,
                        sp0 |-> registers.sp,
                        sp1 |-> M1.registers.sp,
                        sp |-> IF ok THEN M2.registers.sp ELSE registers.sp,
                        read |-> IF ~ok THEN 0
                                 ELSE IF kind \in {"read8", "write8"}
                                 THEN Rd(M1, address, "d1")
                                 ELSE Rd16(M1, address, "d1", "d2"),
                        low |-> IF ok THEN Rd(M1, address, "d1") ELSE 0,
                        high |-> IF ok THEN Rd(M1, u16(address + 1), "d2") ELSE 0])
                 /\ fault' = M2.fault
                 /\ IF ok
                    THEN /\ registers' = M2.registers
                         /\ mmu' = M2.mmu
                         /\ cartridge' = M2.cart
                    ELSE UNCHANGED <<registers, mmu, cartridge>>
    /\ UNCHANGED <<halted, interrupts, overflow_checks, image>>

SpecBus == InitBus /\ [][BusAccess]_vars

-----------------------------------------------------------------------------
(* The boot loop and the serial port: CPU::boot, src/src/cpu.rs, and        *)
(* Memory::debug_serial, src/src/mmu/memory.rs                              *)

\* Memory::debug_serial: the bus after it and the bytes it printed
debug_serial(m) ==
    IF ~m.debug THEN [mmu |-> m, out |-> <<>>]
    ELSE IF m.serial.control = \h81
    THEN [mmu |-> [m EXCEPT !.serial.control = 0], out |-> <<m.serial.transfer>>]
    ELSE [mmu |-> m, out |-> <<>>]

\* one iteration of the loop of boot() on an image of NOP, LD A,n8 and
\* LDH (a8),A with the operands 0x01, 0x02 and 0x81: step(), then
\* debug_serial() in debug mode (debug(), before the step, only prints)
BootIteration ==
    /\ fault.kind = "Ok"
    /\ Len(history) < MaxBootSteps
    /\ Kind = "execute"
    /\ \E op \in {\h00, \h3E, \hE0}, n1 \in {\h00, \h01, \h02, \h81} :
          /\ (op = 0) = (n1 = 0)
          /\ LET M == execute(Updated([Rom0 EXCEPT !.op = op, !.n1 = n1]))
                 S == IF M.mmu.debug THEN debug_serial(M.mmu)
                      ELSE [mmu |-> M.mmu, out |-> <<>>]
             IN  /\ M.fault.kind = "Ok"
                 /\ registers' = M.registers
                 /\ mmu' = S.mmu
                 /\ halted' = M.halted
                 /\ interrupts' = M.interrupts
                 /\ cartridge' = M.cart
                 /\ history' = Append(history,
                       [kind |-> "boot", op |-> op, debug |-> mmu.debug,
                        control0 |-> mmu.serial.control,
                        control1 |-> M.mmu.serial.control,
                        transfer1 |-> M.mmu.serial.transfer,
                        out |-> S.out,
                        control |-> S.mmu.serial.control])
    /\ UNCHANGED <<fault, overflow_checks, image>>

SpecBoot == InitBus /\ [][BootIteration]_vars

-----------------------------------------------------------------------------
(* The cartridge header: src/src/cartridge.rs. rom is the image's bytes by  *)
(* address                                                                  *)

\* the sum leaving out the last header byte, 0x14C
is_header_checksum_valid_Short(rom) ==
    LET RECURSIVE Sub(_, _)
        Sub(addr, checksum) ==
            IF addr >= \h014C THEN checksum
            ELSE Sub(addr + 1, u8(u8(checksum + 256 - rom[addr]) + 255))
    IN  Sub(\h0134, 0) = rom[\h014D]

\* Cartridge::is_header_checksum_valid: checksum.wrapping_sub(byte).wrapping_sub(1)
\* over 0x134..=0x14C, compared with header_checksum()
is_header_checksum_valid(rom) ==
    LET RECURSIVE Sub(_, _)
        Sub(addr, checksum) ==
            IF addr > \h014C THEN checksum
            ELSE Sub(addr + 1, u8(u8(checksum + 256 - rom[addr]) + 255))
    IN  Sub(\h0134, 0) = rom[\h014D]

\* Cartridge::rom_size: 32 * (1 << rom[0x148]) in u8. With overflow checks a
\* shift by 8 or more and a product above 255 panic; without, the shift count
\* is taken modulo 8 and the product modulo 256
rom_size(rom, checks) ==
    LET value == rom[\h0148]
        shifted == 2 ^ (value % 8)
    IN  IF checks /\ (value >= 8 \/ 32 * shifted > 255)
        THEN [kind |-> "Panic", value |-> 0]
        ELSE [kind |-> "Ok", value |-> u8(32 * shifted)]

\* the header queries on an image that differs by the byte at one address from
\* the header of the cpu_instrs fixture (title CPU_INSTRS, CGB flag 0x80, kind
\* 0x01, ROM size 0x01), whose byte at 0x14C is such that the image's checksum
\* byte is right
HeaderQuery ==
    /\ history = <<>>
    /\ \E address \in \h0134..\h014C, value \in Byte :
          LET rom0 == [a \in \h0134..\h014D |->
                          CASE a < \h013E ->
                                 <<67, 80, 85, 95, 73, 78, 83, 84, 82, 83>>[a - \h0133]
                            [] a = \h0143 -> \h80
                            [] a = \h0147 -> \h01
                            [] a = \h0148 -> \h01
                            [] a = \h014C -> u8(\h3B + 256 - cartridge[\h014D])
                            [] a = \h014D -> cartridge[a]
                            [] OTHER -> 0]
              rom == [rom0 EXCEPT ![address] = value]
          IN  /\ cartridge' = rom
              /\ history' = <<[kind |-> "header", address |-> address,
                               value |-> value, old |-> rom0[address],
                               valid0 |-> is_header_checksum_valid(rom0),
                               valid |-> is_header_checksum_valid(rom),
                               rom_size |-> rom_size(rom, overflow_checks)]>>
    /\ UNCHANGED <<registers, mmu, halted, interrupts, fault, overflow_checks, image>>

SpecCartridge == Init /\ [][HeaderQuery]_vars

-----------------------------------------------------------------------------
(* step() in the middle of a program: TIMA is at 0xFF, one or two machine    *)
(* cycles before its overflow when TAC enables it, and IE, IF, IME, halted   *)
(* and SP are whatever the program left                                      *)

\* SP is in high RAM or on the I/O registers just above IF; IE and IF hold handler
\* bits and the three unused bits; TAC selects the 16 T-cycle period, off or on
InitPending ==
    /\ \E sp \in {\hFFFE, \hFF11} : registers = [RegistersNew(0) EXCEPT !.sp = sp]
    /\ cartridge = [a \in {\h014D} |-> 0]
    /\ \E ie \in {\h00, \h04, \h05, \hFF}, if \in {\h00, \h01, \hE0, \hFB},
          tac \in {\h01, \h05}, count \in {8, 12} :
          mmu = [MemoryNew EXCEPT
                    !.ienable = ie,
                    !.iflag = if,
                    !.timer = [write_tac(TimerNew, tac) EXCEPT !.tima.value = \hFF,
                                                               !.tima.count = count]]
    /\ halted \in BOOLEAN
    /\ \E ime \in BOOLEAN : interrupts = [InterruptsDefault EXCEPT !.ime = ime]
    /\ fault = Ok
    /\ overflow_checks = FALSE
    /\ image = "pending"
    /\ history = <<>>

SpecPending == InitPending /\ [][Next]_vars

-----------------------------------------------------------------------------
(* A halted CPU under CPU::boot: step() is called again and again, for as    *)
(* long as the CPU stays halted; of the calls only the last one is observed  *)

\* TAC is off, or on with the 16 or the 256 T-cycle period; TIMA is a whole
\* period or one increment from its overflow
InitHalted ==
    /\ registers = RegistersNew(0)
    /\ cartridge = [a \in {\h014D} |-> 0]
    /\ \E ie \in {\h00, \h01}, if \in {\h00, \h01}, tac \in {\h00, \h05, \h07},
          tima \in {\h00, \hFF} :
          mmu = [MemoryNew EXCEPT
                    !.ienable = ie,
                    !.iflag = if,
                    !.timer = [write_tac(TimerNew, tac) EXCEPT !.tima.value = tima]]
    /\ halted = TRUE
    /\ \E ime \in BOOLEAN : interrupts = [InterruptsDefault EXCEPT !.ime = ime]
    /\ fault = Ok
    /\ overflow_checks = FALSE
    /\ image = "pending"
    /\ history = <<>>

\* step() on a halted CPU: it dispatches a requested interrupt or idles
StepWhileHalted ==
    /\ fault.kind = "Ok"
    /\ halted
    /\ \E M \in {IF Kind = "service" THEN service(Updated(Rom0)) ELSE idle(Updated(Rom0))} :
          /\ registers' = M.registers
          /\ mmu' = M.mmu
          /\ halted' = M.halted
          /\ interrupts' = M.interrupts
          /\ fault' = M.fault
          /\ history' = <<Observation(M, Kind)>>
          /\ UNCHANGED <<cartridge, overflow_checks, image>>

\* the boot loop never stops calling step(): WF_vars(StepWhileHalted), with
\* ENABLED <<StepWhileHalted>>_vars written out as the guard of the action
SpecHalted ==
    /\ InitHalted
    /\ [][StepWhileHalted]_vars
    /\ \/ []<>~(halted /\ fault.kind = "Ok")
       \/ []<><<StepWhileHalted>>_vars

-----------------------------------------------------------------------------
(* Properties                                                               *)

StepIndex == DOMAIN history

\* the handler bits, from the highest priority down
Masks == {1, 2, 4, 8, 16}

\* the bits of Masks set in both ie and if
Pending(ie, if) == {m \in Masks : BitAnd(ie, m) = m /\ BitAnd(if, m) = m}

\* the lowest-numbered bit of a non-empty set of masks
Lowest(ms) == CHOOSE m \in ms : \A m2 \in ms : m <= m2

\* the handler vector of a mask
Vector(m) ==
    CASE m = 1 -> \h0040 [] m = 2 -> \h0048 [] m = 4 -> \h0050
      [] m = 8 -> \h0058 [] m = 16 -> \h0060

\* C1: a step that starts halted with IME false (before and after update(), no EI
\* pending) and some bit set in IF clears halted and services nothing: PC and SP
\* are unchanged and IF changes at most by the timer latch, whatever IE holds.
C1_HaltWakeWithoutService ==
    \A k \in StepIndex :
        LET o == history[k] IN
        (o.halted0 /\ ~o.ime0 /\ ~o.ime /\ o.iflag0 # 0)
            => /\ o.kind # "service"
               /\ ~o.halted
               /\ o.pc = o.pc0
               /\ o.sp = o.sp0
               /\ o.iflag \in {o.iflag0, BitOr(o.iflag0, TIMER)}

\* C2 as stated: a step that starts halted with IME true and some bit set in IF
\* services an interrupt: it pushes PC and clears halted.
C2_HaltWakeWithService ==
    \A k \in StepIndex :
        LET o == history[k] IN
        (o.halted0 /\ o.ime0 /\ o.ime /\ o.iflag0 # 0)
            => /\ o.kind = "service"
               /\ ~o.halted
               /\ o.sp = u16(o.sp0 + 65534)

\* C2 amended: a step that starts halted with IME true after update() and a handler
\* bit set in both IE and IF services the lowest-numbered such bit: it pushes PC,
\* sets PC to that bit's vector and clears halted.
C2_HaltWakeServiceEnabled ==
    \A k \in StepIndex :
        LET o == history[k] IN
        (o.halted0 /\ o.ime /\ Pending(o.ienable0, o.iflag0) # {})
            => /\ o.kind = "service"
               /\ o.handler = Some(Lowest(Pending(o.ienable0, o.iflag0)))
               /\ o.pc = Vector(Lowest(Pending(o.ienable0, o.iflag0)))
               /\ o.sp = u16(o.sp0 + 65534)
               /\ ~o.halted

\* a halted CPU with IME true was woken by the dispatch of an interrupt
C2_Witness ==
    \E k \in StepIndex :
        history[k].halted0 /\ history[k].ime /\ history[k].kind = "service"

\* C3 as stated: right after a step that services an interrupt the serviced bit of
\* IF is 0, IME and halted are false, PC is the vector of the serviced mask, SP is
\* the old SP minus 2 and the old PC is stored little-endian at the new SP.
C3_PostService ==
    \A k \in StepIndex :
        LET o == history[k] IN
        o.kind = "service"
            => /\ BitAnd(o.iflag, o.handler[1]) = 0
               /\ ~o.ime1
               /\ ~o.halted
               /\ o.pc = Vector(o.handler[1])
               /\ o.sp = u16(o.sp0 + 65534)
               /\ o.stored = o.pc0

\* C3 amended: right after a step that services an interrupt IME and halted are
\* false, PC is the vector of the serviced mask and SP is the old SP minus 2; the
\* serviced bit of IF is 0 unless it is TIMER and the 16 T-cycles of the dispatch
\* latched the timer again; the old PC is stored little-endian at the new SP when
\* both bytes of the new top of stack are in work or high RAM.
C3_PostServiceRam ==
    \A k \in StepIndex :
        LET o == history[k] IN
        o.kind = "service"
            => /\ BitAnd(o.iflag, o.handler[1]) = 0 \/ (o.handler[1] = TIMER /\ o.latched)
               /\ ~o.ime1
               /\ ~o.halted
               /\ o.pc = Vector(o.handler[1])
               /\ o.sp = u16(o.sp0 + 65534)
               /\ (InRam(o.sp) /\ InRam(u16(o.sp + 1))) => o.stored = o.pc0

\* a running CPU with IME true dispatched an interrupt onto a stack in RAM
C3_Witness ==
    \E k \in StepIndex :
        /\ history[k].kind = "service"
        /\ history[k].ime
        /\ ~history[k].halted0
        /\ InRam(history[k].sp) /\ InRam(u16(history[k].sp + 1))
        /\ history[k].stored = history[k].pc0

\* C4: after a step that executes EI with IME false, the next step runs with IME
\* false and the step after that with IME true, whatever the next instruction is.
C4_EiLatency ==
    \A k \in StepIndex :
        (history[k].kind = "execute" /\ history[k].op = \hFB /\ ~history[k].ime)
            => /\ (k + 1) \in StepIndex => ~history[k + 1].ime
               /\ (k + 2) \in StepIndex => history[k + 2].ime

\* C5: after a step that executes RETI, IME is true from the update() of the very
\* next step.
C5_RetiEnables ==
    \A k \in StepIndex :
        (history[k].kind = "execute" /\ history[k].op = \hD9 /\ (k + 1) \in StepIndex)
            => history[k + 1].ime

\* C6: after a step that executes DI with IME true, IME is still true in the step of
\* the next instruction and false from the update() of the step after that.
C6_DiLatency ==
    \A k \in StepIndex :
        (history[k].kind = "execute" /\ history[k].op = \hF3 /\ history[k].ime)
            => /\ ((k + 1) \in StepIndex /\ history[k + 1].kind = "execute")
                      => history[k + 1].ime
               /\ (k + 2) \in StepIndex => ~history[k + 2].ime

\* C7: a mask requested() returns is one of the five handler bits, set in both IE
\* and IF, with no lower-numbered handler bit set in both; requested() returns None
\* when IE & IF & 0x1F is 0.
C7_RequestedPriority ==
    \A k \in StepIndex :
        LET o == history[k] IN
        /\ o.handler # None
              => /\ Pending(o.ienable0, o.iflag0) # {}
                 /\ o.handler = Some(Lowest(Pending(o.ienable0, o.iflag0)))
        /\ BitAnd(BitAnd(o.ienable0, o.iflag0), 31) = 0 => o.handler = None

\* requested() returned TIMER with SERIAL, JOYPAD and the three unused bits pending
\* too, and LCDSTAT enabled but not flagged
C7_Witness ==
    \E k \in StepIndex :
        /\ history[k].kind = "requested"
        /\ history[k].ienable0 = \hFE
        /\ history[k].iflag0 = \hFC
        /\ history[k].handler = Some(TIMER)

\* C8: a step where halted is false and IME is false after update() services no
\* interrupt, whatever IE and IF hold: it fetches and executes one instruction.
C8_NoServiceImeOff ==
    \A k \in StepIndex :
        LET o == history[k] IN
        (~o.halted0 /\ ~o.ime)
            => o.kind = "execute" /\ o.fetched = 1 /\ o.handler = None

\* a running CPU with IME false executed an instruction while an enabled interrupt
\* was flagged
C8_Witness ==
    \E k \in StepIndex :
        /\ ~history[k].halted0
        /\ ~history[k].ime
        /\ Pending(history[k].ienable0, history[k].iflag0) # {}
        /\ history[k].kind = "execute"

\* C9: each step() runs update() once, first (IME after it is what one update()
\* makes of the pending EI and DI), and then does exactly one of: dispatch an
\* interrupt (16 T accounted, nothing fetched), idle (4 T accounted, nothing
\* fetched), or fetch one instruction and account the T-cycles it returned.
C9_StepShape ==
    \A k \in StepIndex :
        LET o == history[k] IN
        /\ o.ime = IF o.di0 = "Setting" THEN FALSE
                   ELSE IF o.ei0 = "Setting" THEN TRUE ELSE o.ime0
        /\ o.kind \in {"service", "idle", "execute"}
        /\ o.kind = "service" => o.ticked = 16 /\ o.fetched = 0
        /\ o.kind = "idle" => o.ticked = 4 /\ o.fetched = 0 /\ o.pc = o.pc0
        /\ (o.kind = "execute" /\ o.result = "Ok")
              => o.fetched = 1 /\ o.ticked = o.t /\ o.t \in {4, 8, 12, 16, 20, 24}
        /\ (o.kind = "execute" /\ o.result # "Ok") => o.fetched = 1 /\ o.ticked = 0

\* one run held an interrupt dispatch and an instruction of more than 4 T-cycles
C9_Witness ==
    \E j \in StepIndex, k \in StepIndex :
        /\ history[j].kind = "execute" /\ history[j].ticked > 4
        /\ history[k].kind = "service" /\ history[k].ticked = 16

\* the opcodes the instruction set leaves undefined
Undefined == {211, 219, 221, 227, 228, 235, 236, 237, 244, 252, 253}

\* C10: a step that fetches one of the eleven undefined opcodes returns
\* IllegalInstruction carrying that opcode, with PC one past it; no other opcode
\* yields that error.
C10_IllegalOpcodes ==
    \A k \in StepIndex :
        LET o == history[k] IN
        /\ (o.kind = "execute" /\ o.op \in Undefined)
              => /\ o.result = "IllegalInstruction"
                 /\ o.code = o.op
                 /\ o.pc = u16(o.pc0 + 1)
        /\ o.result = "IllegalInstruction" => o.kind = "execute" /\ o.op \in Undefined

\* a step fetched 0xFD and returned IllegalInstruction(0xFD)
C10_Witness ==
    \E k \in StepIndex :
        /\ history[k].op = \hFD
        /\ history[k].result = "IllegalInstruction"
        /\ history[k].code = \hFD

\* C11: in every call of ticks(), each tick that increments TIMA from 0xFF leaves
\* TIMA = TMA with the interrupt pending, and after the call the TIMER bit of IF is
\* set; with TIMA enabled at period 16, TMA = 0xFE and TIMA = 0xFF, charging 16 T
\* gives TIMA = 0xFE and IF.TIMER = 1.
C11_TimerOverflow ==
    \A k \in StepIndex :
        LET o == history[k] IN
        o.kind = "charge"
            => /\ o.reloaded
               /\ o.wraps => BitAnd(o.iflag, TIMER) = TIMER
               /\ (/\ o.timer0.tima.enabled /\ o.timer0.tima.every = 16
                   /\ o.timer0.tma = \hFE /\ o.timer0.tima.value = \hFF /\ o.t = 16)
                     => /\ TimerRead(o.timer, \hFF05) = \hFE
                        /\ BitAnd(o.iflag, TIMER) = TIMER

\* TAC = 0x05, TMA = 0xFE and TIMA = 0xFF were written, then 16 T were charged
\* and TIMA overflowed
C11_Witness ==
    /\ Len(history) = 4
    /\ history[1].kind = "write" /\ history[1].address = \hFF07 /\ history[1].value = \h05
    /\ history[2].kind = "write" /\ history[2].address = \hFF06 /\ history[2].value = \hFE
    /\ history[3].kind = "write" /\ history[3].address = \hFF05 /\ history[3].value = \hFF
    /\ history[4].kind = "charge" /\ history[4].t = 16 /\ history[4].wraps
    /\ history[4].iflag0 = 0

\* the T-cycles charged by the calls after call j, up to call k
RECURSIVE Charged(_, _)
Charged(j, k) == IF k <= j THEN 0 ELSE history[k].t + Charged(j, k - 1)

\* whether call k writes the timer register at address
Writes(k, address) == history[k].kind = "write" /\ history[k].address = address

\* C12: after a write to 0xFF04, DIV reads floor(T / 256) mod 256, T being the
\* T-cycles charged since that write.
C12_DivSinceWrite ==
    \A j \in StepIndex, k \in StepIndex :
        (/\ j <= k
         /\ Writes(j, \hFF04)
         /\ \A i \in (j + 1)..k : ~Writes(i, \hFF04))
            => TimerRead(history[k].timer, \hFF04) = (Charged(j, k) \div 256) % 256

\* C13: a write of any value to 0xFF04 makes DIV read 0; DIV is always enabled
\* with period 256, a write of TAC leaves it as it is, and a charge of t T-cycles
\* advances it by its own count alone, whatever TAC holds.
C13_DivResetAlwaysOn ==
    \A k \in StepIndex :
        LET o == history[k] IN
        /\ o.timer.div.enabled /\ o.timer.div.every = 256
        /\ Writes(k, \hFF04) => TimerRead(o.timer, \hFF04) = 0
        /\ Writes(k, \hFF07) => o.timer.div = o.timer0.div
        /\ o.kind = "charge"
              => /\ TimerRead(o.timer, \hFF04)
                      = (o.timer0.div.value + (o.timer0.div.count + o.t) \div 256) % 256
                 /\ o.timer.div.count = (o.timer0.div.count + o.t) % 256

\* TIMA was switched off by a TAC write, DIV went on counting, and a write of 0xAB
\* to a DIV that read 4 made it read 0
C13_Witness ==
    /\ Len(history) = 3
    /\ Writes(1, \hFF07) /\ history[1].value = \hFB
    /\ history[2].kind = "charge" /\ TimerRead(history[2].timer, \hFF04) = 4
    /\ Writes(3, \hFF04) /\ history[3].value = \hAB
    /\ TimerRead(history[3].timer, \hFF04) = 0

\* the byte last written to TAC before call k; 0 when none was
LastTac(k) ==
    IF \E j \in 1..(k - 1) : Writes(j, \hFF07)
    THEN history[CHOOSE j \in 1..(k - 1) :
                    /\ Writes(j, \hFF07)
                    /\ \A i \in (j + 1)..(k - 1) : ~Writes(i, \hFF07)].value
    ELSE 0

\* the period of TIMA for the clock select in TAC bits 1-0
Period(tac) ==
    CASE tac % 4 = 0 -> 1024 [] tac % 4 = 1 -> 16 [] tac % 4 = 2 -> 64 [] tac % 4 = 3 -> 256

\* C14: while bit 2 of the byte last written to TAC is clear, a charge changes
\* neither TIMA nor IF and raises no timer interrupt; while it is set, successive
\* increments of TIMA are exactly Period(TAC) T-cycles apart.
C14_TimaGatingPeriod ==
    \A k \in StepIndex :
        LET o == history[k] IN
        o.kind = "charge"
            => IF BitAnd(LastTac(k), 4) = 0
               THEN /\ o.timer.tima = o.timer0.tima
                    /\ ~o.timer.interrupt /\ ~o.latched /\ ~o.wraps
                    /\ o.iflag = o.iflag0
               ELSE o.gaps \subseteq {Period(LastTac(k))}

\* 1024 T-cycles were charged with TIMA off, then TAC = 0x04 was written and two
\* charges of 1024 T-cycles showed increments 1024 T-cycles apart
C14_Witness ==
    /\ Len(history) = 4
    /\ history[1].kind = "charge" /\ history[1].t = 1024
    /\ Writes(2, \hFF07) /\ history[2].value = \h04
    /\ history[4].kind = "charge" /\ history[4].gaps = {1024}

\* C15: after a write of v to 0xFF07, a read of 0xFF07 returns 0xF8 | (v & 0x07).
C15_TacReadBack ==
    \A k \in StepIndex :
        Writes(k, \hFF07)
            => TimerRead(history[k].timer, \hFF07) = BitOr(\hF8, BitAnd(history[k].value, 7))

\* C16: the timer's pending interrupt is false after every call; a charge in which
\* TIMA overflowed leaves IF as it was with the TIMER bit OR-ed in, and any other
\* charge leaves IF as it was.
C16_TimerLatch ==
    /\ ~mmu.timer.interrupt
    /\ \A k \in StepIndex :
          LET o == history[k] IN
          /\ ~o.timer.interrupt
          /\ o.kind = "charge"
                => o.iflag = IF o.wraps THEN BitOr(o.iflag0, TIMER) ELSE o.iflag0

\* TIMA overflowed in a charge that began with IF = 0xFB and ended with IF = 0xFF
C16_Witness ==
    \E k \in StepIndex :
        /\ history[k].kind = "charge"
        /\ history[k].wraps
        /\ history[k].iflag0 = \hFB
        /\ history[k].iflag = \hFF

\* C17: after every step() call the low four bits of F are zero, whatever the
\* instruction wrote to F, POP AF of any two bytes included
C17_FLowNibble == BitAnd(registers.f, \h0F) = 0

\* POP AF has popped a low byte whose low four bits are not zero, from the
\* cartridge at address 0
C17_Witness ==
    /\ Len(history) = 1
    /\ history[1].op = \hF1 /\ history[1].result = "Ok"
    /\ history[1].sp0 = 0 /\ 0 \in DOMAIN cartridge
    /\ BitAnd(cartridge[0], \h0F) # 0
    /\ registers.f = BitAnd(cartridge[0], \hF0)

\* C18: after set_bc(v), set_de(v) or set_hl(v) the two 8-bit registers hold
\* v's high and low bytes and the pair getter returns v; after set_af(v), af()
\* returns v with its low four bits cleared
C18_PairRoundTrip ==
    \A i \in StepIndex :
        LET h == history[i]
        IN  h.kind \in PairNames =>
              /\ h.pair = h.high * 256 + h.low
              /\ h.pair = IF h.kind = "af" THEN BitAnd(h.value, \hFFF0) ELSE h.value

\* each setter has stored a value whose two bytes differ; set_af one with low
\* bits to drop
C18_Witness ==
    /\ Len(history) = 1
    /\ history[1].kind = "af" /\ history[1].value = \hABCD
    /\ history[1].pair = \hABC0

\* whether condition cc (0 NZ, 1 Z, 2 NC, 3 C) holds for the flag byte f
Holds(cc, f) ==
    CASE cc = 0 -> BitAnd(f, \h80) = 0
      [] cc = 1 -> BitAnd(f, \h80) # 0
      [] cc = 2 -> BitAnd(f, \h10) = 0
      [] cc = 3 -> BitAnd(f, \h10) # 0

\* whether a byte written to address is kept: work RAM, high RAM and IE
Stored(address) == map(mmu.debug, address) \in {"wram", "hram", "ienable"}

\* what a step() that executes a conditional JR, JP, CALL or RET does
ConditionalStep ==
    LET h == history'[Len(history')]
        op == h.op
        pc == registers.pc
        sp == registers.sp
        taken == Holds((op \div 8) % 4, registers.f)
        e8 == IF cartridge'[pc + 1] >= 128 THEN cartridge'[pc + 1] - 256
              ELSE cartridge'[pc + 1]
        a16 == cartridge'[pc + 2] * 256 + cartridge'[pc + 1]
        still == /\ registers'.sp = sp
                 /\ mmu'.wram = mmu.wram
                 /\ mmu'.hram = mmu.hram
                 /\ mmu'.ienable = mmu.ienable
    IN  Len(history') = Len(history) + 1 /\ h.kind = "execute" =>
          /\ op \in {\h20, \h28, \h30, \h38} =>
                /\ h.result = "Ok"
                /\ h.t = IF taken THEN 12 ELSE 8
                /\ registers'.pc = IF taken THEN u16(pc + 2 + e8) ELSE pc + 2
                /\ still
          /\ op \in {\hC2, \hCA, \hD2, \hDA} =>
                /\ h.result = "Ok"
                /\ h.t = IF taken THEN 16 ELSE 12
                /\ registers'.pc = IF taken THEN a16 ELSE pc + 3
                /\ still
          /\ op \in {\hC4, \hCC, \hD4, \hDC} =>
                /\ h.result = "Ok"
                /\ h.t = IF taken THEN 24 ELSE 12
                /\ registers'.pc = IF taken THEN a16 ELSE pc + 3
                /\ IF taken
                   THEN /\ registers'.sp = u16(sp + 65534)
                        /\ Stored(registers'.sp) /\ Stored(u16(registers'.sp + 1))
                              => h.stored = pc + 3
                   ELSE still
          /\ op \in {\hC0, \hC8, \hD0, \hD8} =>
                /\ h.result = "Ok"
                /\ h.t = IF taken THEN 20 ELSE 8
                /\ IF taken
                   THEN registers'.sp = u16(sp + 2)
                   ELSE registers'.pc = pc + 1 /\ still

\* C19: JR cc costs 12 T taken and 8 T not taken, JP cc 16 and 12, CALL cc 24
\* and 12, RET cc 20 and 8; JR, JP and CALL leave PC past the operand when not
\* taken, and jump from or push (where the stack keeps what is written) the
\* address past the operand when taken; a CALL or RET that is not taken leaves SP
\* and the stack as they were
C19_ConditionalCost == [][ConditionalStep]_vars

\* CALL NZ with Z set was not taken: 12 T, PC past the operand, SP as before
C19_Witness ==
    /\ Len(history) = 1
    /\ history[1].op = \hC4 /\ history[1].result = "Ok"
    /\ BitAnd(registers.f, \h80) # 0
    /\ history[1].t = 12
    /\ registers.pc = history[1].pc0 + 3
    /\ registers.sp = history[1].sp0

\* the carry that enters an addition: the C flag for adc8, nothing for add8
CarryIn(h) == IF h.kind = "adc8" /\ BitAnd(h.f0, \h10) # 0 THEN 1 ELSE 0

\* C20: add8 and adc8 leave A = (A + v + carry) mod 256, Z set exactly when that
\* is 0, N clear, H set exactly when the low nibbles and the carry add to more
\* than 15, C set exactly when A + v + carry is more than 255, and the low four
\* bits of F clear
C20_AddFlags ==
    \A i \in StepIndex :
        LET h == history[i]
            sum == h.a0 + h.value + CarryIn(h)
            half == (h.a0 % 16) + (h.value % 16) + CarryIn(h)
        IN  h.kind \in {"add8", "adc8"} =>
              /\ h.a = sum % 256
              /\ h.f = (IF sum % 256 = 0 THEN 128 ELSE 0)
                       + (IF half > 15 THEN 32 ELSE 0)
                       + (IF sum > 255 THEN 16 ELSE 0)

\* adc8(0xFF) with the carry set has left A as it was, with H and C set
C20_Witness ==
    /\ Len(history) = 1
    /\ history[1].kind = "adc8" /\ history[1].value = \hFF
    /\ BitAnd(history[1].f0, \h10) # 0
    /\ history[1].a0 = \h42 /\ registers.a = \h42
    /\ registers.f = \h30

\* the borrow that enters a subtraction: the C flag for sbc8, nothing for sub8
\* and cp8
BorrowIn(h) == IF h.kind = "sbc8" /\ BitAnd(h.f0, \h10) # 0 THEN 1 ELSE 0

\* C21: sub8 and sbc8 leave A = (A - v - carry) mod 256 and cp8 leaves A as it
\* was; all three set Z exactly when (A - v - carry) mod 256 is 0, set N, set H
\* exactly when A's low nibble is less than v's low nibble plus the carry, set C
\* exactly when A is less than v plus the carry, taken as integers, and leave
\* the low four bits of F clear
C21_SubFlags ==
    \A i \in StepIndex :
        LET h == history[i]
            result == (h.a0 + 512 - h.value - BorrowIn(h)) % 256
        IN  h.kind \in {"sub8", "sbc8", "cp8"} =>
              /\ h.a = IF h.kind = "cp8" THEN h.a0 ELSE result
              /\ h.f = (IF result = 0 THEN 128 ELSE 0) + 64
                       + (IF h.a0 % 16 < (h.value % 16) + BorrowIn(h) THEN 32 ELSE 0)
                       + (IF h.a0 < h.value + BorrowIn(h) THEN 16 ELSE 0)

\* sbc8(0xFF) with the carry set has left A as it was, with N, H and C set
C21_Witness ==
    /\ Len(history) = 1
    /\ history[1].kind = "sbc8" /\ history[1].value = \hFF
    /\ BitAnd(history[1].f0, \h10) # 0
    /\ history[1].a0 = \h42 /\ registers.a = \h42
    /\ registers.f = \h70

\* A after the decimal adjustment of a with the flags n, h and c
Adjusted(a, n, h, c) ==
    IF n THEN (a + 512 - (IF c THEN 96 ELSE 0) - (IF h THEN 6 ELSE 0)) % 256
    ELSE (a + (IF c \/ a > 153 THEN 96 ELSE 0)
            + (IF h \/ a % 16 > 9 THEN 6 ELSE 0)) % 256

\* C22: daa() after an addition (N clear) adds 0x60 and sets C when C is set or
\* A is above 0x99, and adds 0x06 when H is set or A's low nibble is above 9;
\* after a subtraction (N set) it subtracts 0x60 when C is set and 0x06 when H
\* is set and leaves C; then Z is set exactly when A is 0, H is clear and N is
\* as it was
C22_DecimalAdjust ==
    \A i \in StepIndex :
        LET h == history[i]
            n == BitAnd(h.f0, \h40) # 0
            hf == BitAnd(h.f0, \h20) # 0
            c == BitAnd(h.f0, \h10) # 0
        IN  h.kind = "daa" =>
              /\ h.a = Adjusted(h.a0, n, hf, c)
              /\ h.f = (IF Adjusted(h.a0, n, hf, c) = 0 THEN 128 ELSE 0)
                       + (IF n THEN 64 ELSE 0)
                       + (IF c \/ (~n /\ h.a0 > 153) THEN 16 ELSE 0)

\* daa() on A = 0x0A with only H set has left A = 0x10 and every flag clear
C22_Witness ==
    /\ Len(history) = 2
    /\ history[2].kind = "daa"
    /\ history[2].a0 = \h0A /\ history[2].f0 = \h20
    /\ registers.a = \h10 /\ registers.f = \h00

\* what a step() that executes ADD SP,e8 or LD HL,SP+e8 does
AddSpStep ==
    LET h == history'[Len(history')]
        sp == registers.sp
        e == cartridge'[registers.pc + 1]
        result == (sp + e + (IF e >= 128 THEN 65280 ELSE 0)) % 65536
    IN  Len(history') = Len(history) + 1 /\ h.kind = "execute"
        /\ h.op \in {\hE8, \hF8} =>
          /\ h.result = "Ok"
          /\ registers'.f = (IF (sp % 16) + (e % 16) > 15 THEN 32 ELSE 0)
                            + (IF (sp % 256) + e > 255 THEN 16 ELSE 0)
          /\ IF h.op = \hE8
             THEN registers'.sp = result /\ hl(registers') = hl(registers)
             ELSE hl(registers') = result /\ registers'.sp = sp

\* C23: ADD SP,e8 leaves SP, and LD HL,SP+e8 leaves HL, equal to SP plus the
\* sign-extended operand modulo 2^16; both clear Z and N, set H exactly when the
\* low nibbles of SP and of the operand byte add to more than 15 and C exactly
\* when their low bytes add to more than 255; ADD SP leaves HL, and LD HL,SP+e8
\* leaves SP, as it was
C23_AddSpFlags == [][AddSpStep]_vars

\* ADD SP,-1 on SP = 0xC00F has left SP = 0xC00E with H and C set
C23_Witness ==
    /\ Len(history) = 1
    /\ history[1].op = \hE8 /\ history[1].result = "Ok"
    /\ history[1].sp0 = \hC00F
    /\ cartridge[history[1].pc0 + 1] = \hFF
    /\ registers.sp = \hC00E
    /\ registers.f = \h30

\* whether address lies in work RAM (0xC000-0xDFFF) or high RAM (0xFF80-0xFFFE)
RamAddress(address) ==
    \/ address >= \hC000 /\ address <= \hDFFF
    \/ address >= \hFF80 /\ address <= \hFFFE

\* C24: where the two bytes below SP lie in work RAM or high RAM, push(v) leaves
\* SP two lower (modulo 2^16) with v's low byte at SP and v's high byte at SP + 1,
\* and the pop() that follows returns v and leaves SP as it was before the push
C24_StackRoundTrip ==
    \A i \in StepIndex :
        LET h == history[i]
        IN  /\ h.kind = "push"
            /\ RamAddress((h.sp0 + 65534) % 65536)
            /\ RamAddress((h.sp0 + 65535) % 65536)
            => /\ h.result = "Ok"
               /\ h.sp1 = (h.sp0 + 65534) % 65536
               /\ h.low = h.value % 256
               /\ h.high = h.value \div 256
               /\ h.read = h.value
               /\ h.sp = h.sp0

\* 0x12EF has been pushed from SP = 0xE000 to the top of work RAM and popped
C24_Witness ==
    /\ Len(history) >= 1
    /\ history[1].kind = "push" /\ history[1].value = \h12EF
    /\ history[1].sp0 = \hE000 /\ history[1].sp1 = \hDFFE
    /\ history[1].low = \hEF /\ history[1].high = \h12
    /\ history[1].read = \h12EF /\ history[1].sp = \hE000

\* whether the two RAMs hold the same bytes before and after the step everywhere
\* but at address
OtherRamKept(address) ==
    /\ \A b \in (DOMAIN mmu.wram \cup DOMAIN mmu'.wram) \ {address} :
          RamRead(mmu'.wram, b) = RamRead(mmu.wram, b)
    /\ \A b \in (DOMAIN mmu.hram \cup DOMAIN mmu'.hram) \ {address} :
          RamRead(mmu'.hram, b) = RamRead(mmu.hram, b)

\* what write8 then read8, and write16 then read16, do at a RAM address for
\* which Whole holds
RamRoundTrip(Whole(_)) ==
    LET h == history'[Len(history')]
    IN  Len(history') = Len(history) + 1 /\ RamAddress(h.address) =>
          /\ h.kind = "write8" =>
                /\ h.result = "Ok"
                /\ h.read = h.value
                /\ OtherRamKept(h.address)
          /\ h.kind = "write16" /\ Whole(h.address) =>
                /\ h.result = "Ok"
                /\ h.low = h.value % 256
                /\ h.high = h.value \div 256
                /\ h.read = h.value

Anywhere(address) == TRUE

\* whether the byte after address is kept too: address is not the last byte of
\* work RAM, which echo RAM follows
BelowEcho(address) == address # \hDFFF

\* C25 as stated: at every address in work RAM or high RAM, write8 then read8
\* returns the byte written and no other RAM byte changes, and write16 stores
\* the low byte at the address and the high byte after it and read16 then
\* returns the word
C25_BusRoundTrip == [][RamRoundTrip(Anywhere)]_vars

\* C25, amended: the same, write16 and read16 being taken at every address of
\* work RAM or high RAM but 0xDFFF
C25_BusRoundTripBelowEcho == [][RamRoundTrip(BelowEcho)]_vars

\* 0x12EF has been written at 0xFFFE, the last byte of high RAM, and read back;
\* its high byte is in IE
C25_Witness ==
    /\ Len(history) >= 1
    /\ history[1].kind = "write16" /\ history[1].address = \hFFFE
    /\ history[1].value = \h12EF /\ history[1].result = "Ok"
    /\ history[1].read = \h12EF
    /\ mmu.ienable = \h12 /\ RamRead(mmu.hram, \hFFFE) = \hEF

\* echo RAM and the unusable gap
Reserved(address) ==
    \/ address >= \hE000 /\ address <= \hFDFF
    \/ address >= \hFEA0 /\ address <= \hFEFF

\* VRAM, OAM, joypad, audio and wave pattern, LCD
Stub(address) ==
    \/ address >= \h8000 /\ address <= \h9FFF
    \/ address >= \hFE00 /\ address <= \hFE9F
    \/ address = \hFF00
    \/ address >= \hFF10 /\ address <= \hFF3F
    \/ address >= \hFF40 /\ address <= \hFF4B

\* what read8 and write8 do at a reserved address and at a stub, a read of the
\* stub at address returning StubByte(address)
ReservedAndStubs(StubByte(_)) ==
    LET h == history'[Len(history')]
    IN  Len(history') = Len(history) + 1 /\ h.kind \in {"read8", "write8"} =>
          /\ Reserved(h.address) => h.result = "Panic" /\ fault'.kind = "Panic"
          /\ Stub(h.address) =>
                /\ h.result = "Ok" /\ fault'.kind = "Ok"
                /\ h.read = StubByte(h.address)
                /\ h.kind = "write8" =>
                      /\ mmu' = mmu /\ registers' = registers
                      /\ cartridge' = cartridge /\ halted' = halted
                      /\ interrupts' = interrupts

Zero(address) == 0

\* LY (0xFF44) reads 0x90 in debug mode; every other stub reads 0
ZeroOrLy(address) == IF mmu.debug /\ address = \hFF44 THEN \h90 ELSE 0

\* C28 as stated: read8 and write8 at an address of echo RAM or of the unusable
\* gap end in a panic; read8 at a stub returns 0, and write8 at a stub changes
\* nothing and does not fail
C28_ReservedAndStubs == [][ReservedAndStubs(Zero)]_vars

\* C28, amended: the same, but that in debug mode read8(0xFF44) returns 0x90
C28_ReservedAndStubsLy == [][ReservedAndStubs(ZeroOrLy)]_vars

\* a write to VRAM was dropped and read back as 0, and then a read of echo RAM
\* has ended in a panic
C28_Witness ==
    /\ Len(history) = 2
    /\ history[1].kind = "write8" /\ history[1].address = \h8000
    /\ history[1].value = \h5A /\ history[1].read = 0
    /\ history[2].kind = "read8" /\ history[2].address = \hE000
    /\ history[2].result = "Panic" /\ fault.kind = "Panic"

\* C26: a step() from PC = 0xFFFF fetches its opcode without failing and leaves
\* PC = 0x0000 (the opcode there is IE's byte, 0x00: NOP)
C26_FetchWrap ==
    /\ history = <<>> /\ registers.pc = \hFFFF => fault.kind = "Ok"
    /\ history # <<>> /\ history[1].pc0 = \hFFFF /\ history[1].op = 0
          /\ Len(history) = 1
       => registers.pc = 0

\* the other half of C26: read16(0xFFFF) reads its low byte at 0xFFFF and its
\* high byte at 0x0000, without failing
C26_Read16Wrap ==
    history # <<>> =>
        LET h == history[Len(history)]
        IN  h.kind = "read16" /\ h.address = \hFFFF =>
              /\ h.result = "Ok"
              /\ h.low = mmu.ienable
              /\ h.high = cartridge[0]

\* C27: when a step() leaves the serial control byte at 0x81, the boot loop
\* prints the byte held at 0xFF01 once and clears the control byte before the
\* next step(); when it leaves any other value, nothing is printed and the
\* control byte stays
C27_SerialTransfer ==
    \A i \in StepIndex :
        LET h == history[i]
        IN  h.kind = "boot" =>
              IF h.control1 = \h81
              THEN h.out = <<h.transfer1>> /\ h.control = 0
              ELSE h.out = <<>> /\ h.control = h.control1

\* C27 in debug mode only
C27_SerialTransferDebug ==
    \A i \in StepIndex :
        history[i].kind = "boot" /\ history[i].debug =>
            IF history[i].control1 = \h81
            THEN history[i].out = <<history[i].transfer1>> /\ history[i].control = 0
            ELSE history[i].out = <<>> /\ history[i].control = history[i].control1

\* the sum of the bytes of rom from address addr to 0x14C
RECURSIVE HeaderSum(_, _)
HeaderSum(rom, addr) ==
    IF addr > \h014C THEN 0 ELSE rom[addr] + HeaderSum(rom, addr + 1)

\* C29: is_header_checksum_valid is true exactly when 0 minus each byte of
\* 0x134..0x14C and minus 1 for each, modulo 256, is the byte at 0x14D; so an
\* image that differs from one with a valid header in one byte of 0x134..0x14C
\* has an invalid header
C29_HeaderChecksum ==
    \A i \in StepIndex :
        LET h == history[i]
        IN  h.kind = "header" =>
              /\ h.valid = ((HeaderSum(cartridge, \h0134) + 25 + cartridge[\h014D])
                              % 256 = 0)
              /\ h.valid0
              /\ h.valid = (h.value = h.old)

\* the header is invalid once the last byte of the range, 0x14C, is changed
C29_Witness ==
    /\ Len(history) = 1
    /\ history[1].kind = "header" /\ history[1].valid0
    /\ history[1].address = \h014C
    /\ history[1].value # history[1].old
    /\ ~history[1].valid

\* C30: for each ROM size byte of the header format (0 to 8), rom_size() returns
\* 32 * 2^value
C30_RomSize ==
    \A i \in StepIndex :
        LET h == history[i]
        IN  h.kind = "header" /\ cartridge[\h0148] <= 8 =>
              /\ h.rom_size.kind = "Ok"
              /\ h.rom_size.value = 32 * 2 ^ cartridge[\h0148]

\* C31: when the update() of a step finds both the pending enable and the pending
\* disable at Setting, IME is false after it and both pending states are None:
\* the disable takes effect over the enable.
C31_DisableOverEnable ==
    \A k \in StepIndex :
        LET o == history[k] IN
        (o.ei0 = "Setting" /\ o.di0 = "Setting")
            => ~o.ime /\ o.ei = "None" /\ o.di = "None"

\* DI then RETI left both pending states at Setting with IME true, and the
\* update() of the next step turned IME off
C31_Witness ==
    \E k \in StepIndex :
        /\ history[k].ei0 = "Setting" /\ history[k].di0 = "Setting"
        /\ history[k].ime0
        /\ ~history[k].ime

\* C32: enable(immediate) and disable() leave IME as it is and set only their own
\* pending state (EI and RETI set ei, DI sets di); an update() that finds both
\* pending states None leaves ime, ei and di as they are; IME changes only in an
\* update() that commits a pending state at Setting or in the dispatch of an
\* interrupt, and not between two steps.
C32_ImeFrame ==
    \A k \in StepIndex :
        LET o == history[k] IN
        /\ (o.kind = "execute" /\ o.op = \hFB)
              => o.ime1 = o.ime /\ o.ei1 = "Delayed" /\ o.di1 = o.di
        /\ (o.kind = "execute" /\ o.op = \hD9)
              => o.ime1 = o.ime /\ o.ei1 = "Setting" /\ o.di1 = o.di
        /\ (o.kind = "execute" /\ o.op = \hF3)
              => o.ime1 = o.ime /\ o.di1 = "Delayed" /\ o.ei1 = o.ei
        /\ (o.ei0 = "None" /\ o.di0 = "None")
              => o.ime = o.ime0 /\ o.ei = "None" /\ o.di = "None"
        /\ o.ime # o.ime0 => o.ei0 = "Setting" \/ o.di0 = "Setting"
        /\ o.ime1 # o.ime => o.kind = "service"
        /\ (k + 1) \in StepIndex => history[k + 1].ime0 = o.ime1

\* with IME true and nothing pending, update() left IME true and the DI executed
\* in that step left it true too
C32_Witness ==
    \E k \in StepIndex :
        /\ history[k].ei0 = "None" /\ history[k].di0 = "None"
        /\ history[k].ime0 /\ history[k].ime
        /\ history[k].kind = "execute" /\ history[k].op = \hF3
        /\ history[k].ime1 /\ history[k].di1 = "Delayed"

\* a step() call that idled a halted CPU
IdleStep ==
    /\ history' # history
    /\ history'[Len(history')].kind = "idle"

\* TIMA is enabled at 0xFF and its next increment falls within the next 4 T-cycles
OverflowWithin4 ==
    /\ mmu.timer.tima.enabled
    /\ mmu.timer.tima.value = \hFF
    /\ mmu.timer.tima.count + 4 >= mmu.timer.tima.every

\* what a halt-idle step does
HaltIdleStep ==
    IdleStep =>
        /\ halted
        /\ OverflowWithin4 => BitAnd(mmu'.iflag, TIMER) = TIMER /\ ~halted'
        /\ mmu'.iflag # 0 => ~halted'
        /\ mmu'.iflag = 0
              => /\ halted'
                 /\ registers' = registers
                 /\ mmu'.wram = mmu.wram
                 /\ mmu'.hram = mmu.hram

\* C33: a halt-idle step charges its 4 T-cycles to the timer before it tests IF: a
\* TIMA overflow within those 4 T-cycles sets TIMER in IF and clears halted in that
\* same step; when IF is 0 after the charge, halted stays true and PC, SP, the
\* other registers and RAM are as before the step.
C33_HaltIdleWake == [][HaltIdleStep]_vars

\* a halted CPU with IF = 0 idled, TIMA overflowed during the 4 T-cycles, and the
\* step ended with halted false
C33_Witness ==
    \E k \in StepIndex :
        /\ history[k].kind = "idle"
        /\ history[k].iflag0 = 0
        /\ history[k].latched
        /\ history[k].iflag = TIMER
        /\ ~history[k].halted
        /\ history[k].ticked = 4

\* C34: after a step that services an interrupt, IME is false in every following
\* step up to and including the first one in which the handler executes EI or
\* RETI, whatever enable or disable was pending when the interrupt was serviced.
C34_HandlerMasked ==
    \A k \in StepIndex, j \in StepIndex :
        (/\ k < j
         /\ history[k].kind = "service"
         /\ \A i \in (k + 1)..(j - 1) :
                ~(history[i].kind = "execute" /\ history[i].op \in {\hFB, \hD9}))
            => ~history[j].ime

\* C35: no step() returns InvalidInterrupt: the mask a step dispatches is one of
\* 0x01, 0x02, 0x04, 0x08, 0x10, whatever IE and IF hold in their bits 5 to 7, and
\* a step returns Ok or IllegalInstruction.
C35_NoInvalidInterrupt ==
    /\ fault.kind # "InvalidInterrupt"
    /\ \A k \in StepIndex :
          LET o == history[k] IN
          /\ o.result \in {"Ok", "IllegalInstruction"}
          /\ o.handler # None => o.handler[1] \in Masks
          /\ o.kind = "service" => o.result = "Ok" /\ o.pc = Vector(o.handler[1])
          /\ o.result = "IllegalInstruction" => o.kind = "execute"

\* with IME true and only the unused bits 5 to 7 set in both IE and IF a step
\* executed an instruction, and once the timer had latched TIMER next to them a
\* step dispatched TIMER
C35_Witness ==
    /\ \E k \in StepIndex :
          /\ history[k].ime
          /\ BitAnd(history[k].ienable0, history[k].iflag0) = \hE0
          /\ history[k].kind = "execute"
          /\ history[k].result = "Ok"
    /\ \E k \in StepIndex :
          /\ BitAnd(history[k].ienable0, history[k].iflag0) = \hE4
          /\ history[k].kind = "service"
          /\ history[k].handler = Some(TIMER)
          /\ history[k].result = "Ok"

\* a halted CPU with TIMA off and IF = 0 is the same after a step() call
StaysHalted ==
    (halted /\ ~mmu.timer.tima.enabled /\ mmu.iflag = 0)
        => halted' /\ ~mmu'.timer.tima.enabled /\ mmu'.iflag = 0

\* C36: under repeated step() calls a CPU that is halted while TAC enables TIMA is
\* eventually not halted, with IME false and IE = 0 too; a CPU that is halted with
\* TIMA off and IF = 0 stays halted for ever.
C36_HaltLiveness ==
    /\ (halted /\ mmu.timer.tima.enabled) ~> ~halted
    /\ [][StaysHalted]_vars

\* a CPU halted with IME false, IE = 0 and IF = 0 idled until TIMA overflowed and
\* is no longer halted
C36_Witness ==
    /\ ~halted
    /\ history # <<>>
    /\ history[1].kind = "idle"
    /\ ~history[1].ime
    /\ history[1].ienable0 = 0
    /\ history[1].iflag0 = 0
    /\ history[1].latched
    /\ mmu.timer.div.value > 0

\* C37: when TIMA overflows during a step and, as the next step begins, IME is
\* true, no DI is pending, IE has the TIMER bit and neither VBLANK nor LCDSTAT is
\* set in both IE and IF, that next step services TIMER: its PC ends at 0x0050.
C37_TimerResponse ==
    \A k \in StepIndex :
        (k + 1) \in StepIndex =>
            LET o == history[k]
                n == history[k + 1]
            IN  (/\ o.latched
                 /\ n.ime0
                 /\ n.di0 = "None"
                 /\ BitAnd(n.ienable0, TIMER) = TIMER
                 /\ Pending(n.ienable0, n.iflag0) \cap {VBLANK, LCD_STAT} = {})
                    => /\ n.kind = "service"
                       /\ n.handler = Some(TIMER)
                       /\ n.pc = \h0050
                       /\ n.sp = u16(n.sp0 + 65534)

\* TIMA overflowed while an instruction executed with IME true and IF = 0, and the
\* next step serviced TIMER
C37_Witness ==
    \E k \in StepIndex :
        /\ (k + 1) \in StepIndex
        /\ history[k].kind = "execute"
        /\ history[k].iflag0 = 0
        /\ history[k].latched
        /\ history[k + 1].ime0
        /\ history[k + 1].kind = "service"
        /\ history[k + 1].handler = Some(TIMER)
        /\ history[k + 1].pc = \h0050

\* what a step that services an interrupt does to IE and IF when SP points into
\* work RAM or high RAM: served is the mask it serviced, latched whether the timer
\* overflowed during the 16 T-cycles of the dispatch
ServiceKeepsRequests ==
    (/\ history' # history
     /\ history'[Len(history')].kind = "service"
     /\ InRam(registers.sp))
        => LET served == history'[Len(history')].handler[1]
               latched == history'[Len(history')].latched
               others == BitAnd(mmu.iflag, BitNot(served))
           IN  /\ BitAnd(mmu.iflag, served) = served
               /\ mmu'.ienable = mmu.ienable
               /\ BitAnd(mmu'.iflag, others) = others
               /\ mmu'.iflag = IF latched THEN BitOr(others, TIMER) ELSE others

\* C38: a step that services an interrupt with SP in work RAM or high RAM clears
\* the serviced bit of IF and no other: every other bit that was set in IF before
\* the step is set after it (TIMER is set too when TIMA overflows during the
\* dispatch), and IE is unchanged.
C38_ServiceKeepsRequests == [][ServiceKeepsRequests]_vars

\* VBLANK was serviced from IF = 0xFB with SP in high RAM, and IF is 0xFA after it
C38_Witness ==
    \E k \in StepIndex :
        /\ history[k].kind = "service"
        /\ history[k].sp0 = \hFFFE
        /\ history[k].iflag0 = \hFB
        /\ history[k].handler = Some(VBLANK)
        /\ history[k].iflag = \hFA

\* step h executed HALT and the CPU idled from then until step j
HaltedSince(h, j) ==
    /\ h < j
    /\ history[h].kind = "execute"
    /\ history[h].op = \h76
    /\ \A i \in (h + 1)..(j - 1) : history[i].kind = "idle"

\* what holds of every step j that wakes a halted CPU by servicing an interrupt,
\* given where the stack may be: PC before it is the address after the HALT, that
\* address is what it leaves on the stack, and a RETI executed next ends with PC at
\* that address and halted false
ResumeAfterHalt(OnStack(_)) ==
    \A j \in StepIndex :
        (history[j].kind = "service" /\ history[j].halted0 /\ OnStack(history[j].sp))
            => /\ ~history[j].halted
               /\ \A h \in StepIndex :
                      HaltedSince(h, j) => history[j].pc0 = u16(history[h].pc0 + 1)
               /\ history[j].stored = history[j].pc0
               /\ ((j + 1) \in StepIndex /\ history[j + 1].kind = "execute"
                       /\ history[j + 1].op = \hD9)
                      => /\ history[j + 1].pc = history[j].pc0
                         /\ history[j + 1].sp = history[j].sp0
                         /\ ~history[j + 1].halted

\* the stack may be anywhere
AnyStack(sp) == TRUE

\* both bytes of the top of the stack are in work RAM or high RAM
RamStack(sp) == InRam(sp) /\ InRam(u16(sp + 1))

\* C39 as stated: when a halted CPU is woken by a serviced interrupt, the return
\* address pushed is the address of the instruction after HALT, and a RETI in the
\* handler resumes there with halted false.
C39_ResumeAfterHalt == ResumeAfterHalt(AnyStack)

\* C39 amended: when a halted CPU is woken by a serviced interrupt whose push lands
\* in work RAM or high RAM, the return address pushed is the address of the
\* instruction after HALT, and a RETI in the handler resumes there with halted
\* false.
C39_ResumeAfterHaltRam == ResumeAfterHalt(RamStack)

\* HALT, then the dispatch that woke the CPU onto a stack in high RAM, then RETI
\* back to the address after the HALT
C39_Witness ==
    \E j \in StepIndex :
        /\ (j - 1) \in StepIndex /\ (j + 1) \in StepIndex
        /\ HaltedSince(j - 1, j)
        /\ history[j].kind = "service" /\ history[j].halted0
        /\ RamStack(history[j].sp)
        /\ history[j + 1].kind = "execute" /\ history[j + 1].op = \hD9
        /\ history[j + 1].pc = u16(history[j - 1].pc0 + 1)
        /\ ~history[j + 1].halted

====
